---- MODULE Spec2Model ----
(***************************************************************************)
(* A model of the bencodec codec: the recursive-descent BencodeDecoder,   *)
(* the BencodeEncoder with its cycle guard and path stack, the Bytes      *)
(* helpers both rest on, and the public decode / encode functions.        *)
(*                                                                         *)
(* Bytes are integers 0..255, JavaScript strings are sequences of UTF-16  *)
(* code units, and every JavaScript value is a record [t, v] whose tag t  *)
(* says how v is to be read.                                               *)
(***************************************************************************)
EXTENDS Integers, Sequences, FiniteSets, TLC

VARIABLES
    phase,      \* "input": the argument is being built; "done": the call has ended
    cfg,        \* the sets the inputs of this run are drawn from (fixed by Init)
    data,       \* the bytes or code units of decode's argument, as given so far
    nChunks,    \* how many fragments data was built from
    heap,       \* encode's argument: its lists and dictionaries, by identity
    root,       \* encode's argument: the value handed to encode
    nEntries,   \* how many elements and properties the heap holds
    call,       \* the function that was called
    input,      \* decode's argument
    options,    \* the options of the call
    result      \* what the call returned or threw

vars == <<phase, cfg, data, nChunks, heap, root, nEntries, call, input, options, result>>

(***************************************************************************)
(* FLAG: the byte markers of the wire format.                              *)
(***************************************************************************)
FLAG_INTEGER == 105
FLAG_STR_DELIMITER == 58
FLAG_LIST == 108
FLAG_DICTIONARY == 100
FLAG_END == 101
FLAG_MINUS == 45
FLAG_PLUS == 43
FLAG_DOT == 46

(***************************************************************************)
(* JavaScript values.                                                      *)
(***************************************************************************)
Undefined == [t |-> "undefined", v |-> 0]
Null == [t |-> "null", v |-> 0]
Num(n) == [t |-> "num", v |-> n]
Bool(b) == [t |-> "bool", v |-> b]
Str(s) == [t |-> "str", v |-> s]
U8(b) == [t |-> "bytes", v |-> b]
Func == [t |-> "function", v |-> 0]
\* Numbers that are no integer below 10^21: -0 and the numbers with a
\* fractional part (sign, whole part, tenths), NaN, the infinities, and the
\* integers from 10^21 on (sign, one digit, number of zeros after it).
Frac(neg, whole, tenths) == [t |-> "frac", v |-> [neg |-> neg, whole |-> whole, tenths |-> tenths]]
NaN == [t |-> "nan", v |-> 0]
Infinity(neg) == [t |-> "inf", v |-> neg]
Exp(neg, digit, zeros) == [t |-> "exp", v |-> [neg |-> neg, digit |-> digit, zeros |-> zeros]]
NumberTypes == {"num", "frac", "nan", "inf", "exp"}
Ref(id) == [t |-> "ref", v |-> id]
List(items) == [t |-> "list", v |-> items]
Dict(entries) == [t |-> "dict", v |-> entries]
Entry(key, value) == [k |-> key, val |-> value]

Min2(a, b) == IF a < b THEN a ELSE b
MinOf(S) == CHOOSE x \in S : \A y \in S : x <= y

(***************************************************************************)
(* Bytes (bytes.ts).                                                       *)
(***************************************************************************)
IsHighSurrogate(c) == c >= 55296 /\ c <= 56319
IsLowSurrogate(c) == c >= 56320 /\ c <= 57343

\* TextEncoder.encode: UTF-8, a lone surrogate becoming U+FFFD.
RECURSIVE Utf8EncodeFrom(_, _)
Utf8EncodeFrom(s, i) ==
    IF i > Len(s) THEN <<>>
    ELSE LET c == s[i] IN
         IF c < 128 THEN <<c>> \o Utf8EncodeFrom(s, i + 1)
         ELSE IF c < 2048
         THEN <<192 + (c \div 64), 128 + (c % 64)>> \o Utf8EncodeFrom(s, i + 1)
         ELSE IF IsHighSurrogate(c) /\ i < Len(s) /\ IsLowSurrogate(s[i + 1])
         THEN LET cp == 65536 + ((c - 55296) * 1024) + (s[i + 1] - 56320)
              IN <<240 + (cp \div 262144), 128 + ((cp \div 4096) % 64),
                   128 + ((cp \div 64) % 64), 128 + (cp % 64)>>
                 \o Utf8EncodeFrom(s, i + 2)
         ELSE IF IsHighSurrogate(c) \/ IsLowSurrogate(c)
         THEN <<239, 191, 189>> \o Utf8EncodeFrom(s, i + 1)
         ELSE <<224 + (c \div 4096), 128 + ((c \div 64) % 64), 128 + (c % 64)>>
              \o Utf8EncodeFrom(s, i + 1)

\* TextDecoder.decode, not fatal: the code points of the bytes, U+FFFD for
\* every ill-formed subsequence.
RECURSIVE Utf8DecodeFrom(_, _, _, _, _, _, _)
Utf8DecodeFrom(b, i, cp, needed, seen, lower, upper) ==
    IF i > Len(b) THEN (IF needed # 0 THEN <<65533>> ELSE <<>>)
    ELSE LET x == b[i] IN
         IF needed = 0
         THEN IF x <= 127
              THEN <<x>> \o Utf8DecodeFrom(b, i + 1, 0, 0, 0, 128, 191)
              ELSE IF x >= 194 /\ x <= 223
              THEN Utf8DecodeFrom(b, i + 1, x - 192, 1, 0, 128, 191)
              ELSE IF x >= 224 /\ x <= 239
              THEN Utf8DecodeFrom(b, i + 1, x - 224, 2, 0,
                                  IF x = 224 THEN 160 ELSE 128,
                                  IF x = 237 THEN 159 ELSE 191)
              ELSE IF x >= 240 /\ x <= 244
              THEN Utf8DecodeFrom(b, i + 1, x - 240, 3, 0,
                                  IF x = 240 THEN 144 ELSE 128,
                                  IF x = 244 THEN 143 ELSE 191)
              ELSE <<65533>> \o Utf8DecodeFrom(b, i + 1, 0, 0, 0, 128, 191)
         ELSE IF x < lower \/ x > upper
         THEN <<65533>> \o Utf8DecodeFrom(b, i, 0, 0, 0, 128, 191)
         ELSE IF seen + 1 = needed
         THEN <<(cp * 64) + (x - 128)>> \o Utf8DecodeFrom(b, i + 1, 0, 0, 0, 128, 191)
         ELSE Utf8DecodeFrom(b, i + 1, (cp * 64) + (x - 128), needed, seen + 1, 128, 191)

\* The UTF-16 code units of a sequence of code points.
RECURSIVE CodeUnitsFrom(_, _)
CodeUnitsFrom(cps, i) ==
    IF i > Len(cps) THEN <<>>
    ELSE IF cps[i] > 65535
    THEN <<55296 + ((cps[i] - 65536) \div 1024), 56320 + ((cps[i] - 65536) % 1024)>>
         \o CodeUnitsFrom(cps, i + 1)
    ELSE <<cps[i]>> \o CodeUnitsFrom(cps, i + 1)

\* new TextDecoder(): ignoreBOM is false, so a leading U+FEFF is dropped.
TextDecoder_decode(bytes) ==
    LET cps == Utf8DecodeFrom(bytes, 1, 0, 0, 0, 128, 191)
    IN CodeUnitsFrom(IF Len(cps) > 0 /\ cps[1] = 65279 THEN Tail(cps) ELSE cps, 1)

IsUtf8(encoding) == encoding \in {"utf8", "utf-8"}

Bytes_fromString(str, encoding) ==
    IF IsUtf8(encoding) THEN Utf8EncodeFrom(str, 1)
    ELSE [i \in 1..Len(str) |-> str[i] % 256]

Bytes_toString(bytes, encoding) ==
    IF IsUtf8(encoding) THEN TextDecoder_decode(bytes)
    ELSE [i \in 1..Len(bytes) |-> bytes[i]]

RECURSIVE Bytes_concat(_)
Bytes_concat(arrays) ==
    IF arrays = <<>> THEN <<>> ELSE Head(arrays) \o Bytes_concat(Tail(arrays))

\* Element-wise comparison of two integer sequences: -1, 0 or 1.
LexCompare(a, b) ==
    LET minLength == Min2(Len(a), Len(b))
        differ == {i \in 1..minLength : a[i] # b[i]}
    IN IF differ # {}
       THEN (IF a[MinOf(differ)] < b[MinOf(differ)] THEN -1 ELSE 1)
       ELSE IF Len(a) < Len(b) THEN -1
       ELSE IF Len(a) > Len(b) THEN 1
       ELSE 0

Bytes_compare(a, b) == LexCompare(a, b)

(***************************************************************************)
(* JavaScript objects: the own string keys of an object are kept in the   *)
(* order Object.keys reports them, array indices first in ascending       *)
(* numeric order and then the other keys in insertion order.              *)
(* (Property "__proto__" is longer than any key of this model.)           *)
(***************************************************************************)
MaxArrayIndexDigits == <<52, 50, 57, 52, 57, 54, 55, 50, 57, 52>>

IsArrayIndex(key) ==
    /\ Len(key) >= 1
    /\ Len(key) <= 10
    /\ \A i \in 1..Len(key) : key[i] >= 48 /\ key[i] <= 57
    /\ (Len(key) = 1 \/ key[1] # 48)
    /\ (Len(key) = 10 => LexCompare(key, MaxArrayIndexDigits) <= 0)

IndexLess(a, b) ==
    Len(a) < Len(b) \/ (Len(a) = Len(b) /\ LexCompare(a, b) < 0)

\* obj[key] = value
ObjSet(entries, key, value) ==
    IF \E i \in 1..Len(entries) : entries[i].k = key
    THEN [i \in 1..Len(entries) |->
             IF entries[i].k = key THEN Entry(key, value) ELSE entries[i]]
    ELSE IF IsArrayIndex(key)
    THEN LET p == Cardinality({i \in 1..Len(entries) :
                     IsArrayIndex(entries[i].k) /\ IndexLess(entries[i].k, key)})
         IN SubSeq(entries, 1, p) \o <<Entry(key, value)>>
            \o SubSeq(entries, p + 1, Len(entries))
    ELSE Append(entries, Entry(key, value))

Object_keys(entries) == [i \in 1..Len(entries) |-> entries[i].k]

(***************************************************************************)
(* Errors (errors.ts) and the outcome of a call: a return or a throw.     *)
(* An optional field is a set, empty when the field is undefined.         *)
(***************************************************************************)
NoError == [name |-> "", code |-> "", position |-> {}, path |-> {}]
BencodeDecodeError(code, position) ==
    [name |-> "BencodeDecodeError", code |-> code, position |-> position, path |-> {}]
BencodeEncodeError(code, path) ==
    [name |-> "BencodeEncodeError", code |-> code, position |-> {}, path |-> {path}]
RangeError == [name |-> "RangeError", code |-> "", position |-> {}, path |-> {}]
TypeError == [name |-> "TypeError", code |-> "", position |-> {}, path |-> {}]

DecodeErrorCodes ==
    {"EMPTY_INPUT", "UNEXPECTED_END", "INVALID_FORMAT", "LEADING_ZEROS", "NEGATIVE_ZERO",
     "UNSORTED_KEYS", "TRAILING_DATA", "MAX_DEPTH_EXCEEDED", "MAX_SIZE_EXCEEDED"}
EncodeErrorCodes == {"UNSUPPORTED_TYPE", "CIRCULAR_REFERENCE"}

\* The decoder's outcomes carry the instance's _index and _currentDepth.
Return(value, index, depth) ==
    [ok |-> TRUE, val |-> value, err |-> NoError, idx |-> index, depth |-> depth]
Throw(error, index, depth) ==
    [ok |-> FALSE, val |-> Undefined, err |-> error, idx |-> index, depth |-> depth]

\* An option that is undefined or 0 is falsy.
Truthy(option) == \E n \in option : n # 0
Exceeds(option, n) == \E m \in option : m # 0 /\ n > m

(***************************************************************************)
(* BencodeDecoder (BencodeDecoder.ts).  buf is _buffer, index is _index,   *)
(* depth is _currentDepth, opt is _options.                               *)
(***************************************************************************)
\* A test for digits that leaves out 0.
C13_NonZeroDigit(char) == char >= 49 /\ char <= 57

_isInteger(char) == char >= 48 /\ char <= 57

\* buf[i] of a Uint8Array, -1 standing for undefined.
ByteAt(buf, i) == IF i >= 0 /\ i < Len(buf) THEN buf[i + 1] ELSE -1
_currentChar(buf, index) == ByteAt(buf, index)
\* An end-of-buffer test that never sees the end.
C15_NeverEOF(buf, index) == FALSE

_isEOF(buf, index) == index >= Len(buf)
\* An error that reports the byte after the cursor.
C16_NextByte(code, index) == BencodeDecodeError(code, {index + 1})

_decodeError(code, index) == BencodeDecodeError(code, {index})

\* The digit loop of _decodeInteger: <<integer, index>>.
RECURSIVE DigitLoop(_, _, _, _)
DigitLoop(buf, index, integer, isFloat) ==
    LET c == _currentChar(buf, index) IN
    IF _isInteger(c) \/ c = FLAG_DOT
    THEN LET float == isFloat \/ c = FLAG_DOT
         IN IF float THEN DigitLoop(buf, index + 1, integer, TRUE)
            ELSE DigitLoop(buf, index + 1, (integer * 10) + (c - 48), FALSE)
    ELSE <<integer, index>>

_decodeInteger(buf, index, depth) ==
    LET isBencodeInteger == _currentChar(buf, index) = FLAG_INTEGER
        i1 == IF isBencodeInteger THEN index + 1 ELSE index
        i2 == IF _currentChar(buf, i1) = FLAG_PLUS THEN i1 + 1 ELSE i1
        sign == IF _currentChar(buf, i2) = FLAG_MINUS THEN -1 ELSE 1
        i3 == IF sign = -1 THEN i2 + 1 ELSE i2
        digits == DigitLoop(buf, i3, 0, FALSE)
        integer == digits[1]
        i4 == digits[2]
        i5 == IF isBencodeInteger \/ _currentChar(buf, i4) = FLAG_STR_DELIMITER
              THEN i4 + 1 ELSE i4
    IN IF isBencodeInteger /\ _currentChar(buf, i3) = 48 /\ _isInteger(ByteAt(buf, i3 + 1))
       THEN Throw(_decodeError("LEADING_ZEROS", i3), i3, depth)
       ELSE IF isBencodeInteger /\ (_isEOF(buf, i4) \/ _currentChar(buf, i4) # FLAG_END)
       THEN Throw(_decodeError("UNEXPECTED_END", i4), i4, depth)
       ELSE IF sign = -1 /\ integer = 0
       THEN Throw(_decodeError("NEGATIVE_ZERO", i5), i5, depth)
       ELSE Return(integer * sign, i5, depth)

\* options.encoding || 'utf8'
EncodingOf(opt) == IF opt.encoding = {} THEN "utf8" ELSE CHOOSE e \in opt.encoding : TRUE

\* _decodeString once the length prefix n has been decoded.
\* A string body that leaves the cursor one byte after the content.
C14_OneTooFar(buf, opt, n) ==
    IF ~n.ok THEN n
    ELSE IF n.idx + n.val > Len(buf)
    THEN Throw(_decodeError("UNEXPECTED_END", n.idx), n.idx, n.depth)
    ELSE Return(U8(SubSeq(buf, n.idx + 1, n.idx + n.val)), n.idx + n.val + 1, n.depth)

StringBody(buf, opt, n) ==
    IF ~n.ok THEN n
    ELSE IF Exceeds(opt.maxStringLength, n.val)
    THEN Throw(BencodeDecodeError("MAX_SIZE_EXCEEDED", {n.idx}), n.idx, n.depth)
    ELSE IF n.idx + n.val > Len(buf)
    THEN Throw(_decodeError("UNEXPECTED_END", n.idx), n.idx, n.depth)
    ELSE IF n.val < 0
    THEN Throw(RangeError, n.idx, n.depth)      \* new Uint8Array(length)
    ELSE Return(IF opt.stringify
                THEN Str(Bytes_toString(SubSeq(buf, n.idx + 1, n.idx + n.val), EncodingOf(opt)))
                ELSE U8(SubSeq(buf, n.idx + 1, n.idx + n.val)),
                n.idx + n.val, n.depth)

_decodeString(buf, index, depth, opt) == StringBody(buf, opt, _decodeInteger(buf, index, depth))

\* A return of _decodeInteger() that loses the sign.
C18_SignLost(n) ==
    IF n.ok THEN Return(Num(IF n.val < 0 THEN -n.val ELSE n.val), n.idx, n.depth) ELSE n

\* decode()'s return of _decodeInteger(): a number.
IntegerValue(n) == IF n.ok THEN Return(Num(n.val), n.idx, n.depth) ELSE n

RECURSIVE BencodeDecoder_decode(_, _, _, _)
RECURSIVE ListLoop(_, _, _, _, _)
RECURSIVE DictionaryLoop(_, _, _, _, _, _)

\* acc.push(item), and the loop again.
ListPushItem(buf, opt, acc, item) ==
    IF ~item.ok THEN item
    ELSE ListLoop(buf, item.idx, item.depth, opt, Append(acc, item.val))

\* The while loop of _decodeList; acc is the array so far.
ListLoop(buf, index, depth, opt, acc) ==
    IF _isEOF(buf, index) \/ _currentChar(buf, index) = FLAG_END
    THEN Return(acc, index, depth)
    ELSE ListPushItem(buf, opt, acc, BencodeDecoder_decode(buf, index, depth, opt))

\* _decodeList after its loop.
ListEnd(buf, body) ==
    IF ~body.ok THEN body
    ELSE IF _isEOF(buf, body.idx)
    THEN Throw(_decodeError("UNEXPECTED_END", body.idx), body.idx, body.depth - 1)
    ELSE Return(List(body.val), body.idx + 1, body.depth - 1)

_decodeList(buf, index, depth, opt) ==
    IF Exceeds(opt.maxDepth, depth + 1)
    THEN Throw(BencodeDecodeError("MAX_DEPTH_EXCEEDED", {index}), index, depth + 1)
    ELSE ListEnd(buf, ListLoop(buf, index + 1, depth + 1, opt, <<>>))

\* keyBytes: Bytes.isBytes(key) ? key : Bytes.fromString(key)
KeyBytes(key) == IF key.t = "bytes" THEN key.v ELSE Bytes_fromString(key.v, "utf8")

\* The property name: typeof key === 'string' ? key : Bytes.toString(key)
KeyString(key) == IF key.t = "str" THEN key.v ELSE Bytes_toString(key.v, "utf8")

\* The strict-mode comparison of a key with the key before it.
KeyOutOfOrder(opt, prevKey, keyBytes) ==
    opt.strict /\ prevKey # <<>> /\ Bytes_compare(prevKey[1], keyBytes) >= 0

\* acc[key] = value, and the loop again.
DictionarySetValue(buf, opt, acc, key, value) ==
    IF ~value.ok THEN value
    ELSE DictionaryLoop(buf, value.idx, value.depth, opt,
                        ObjSet(acc, KeyString(key), value.val), <<KeyBytes(key)>>)

\* The body of the loop of _decodeDictionary once the key has been decoded.
DictionaryKey(buf, opt, acc, prevKey, key) ==
    IF ~key.ok THEN key
    ELSE IF KeyOutOfOrder(opt, prevKey, KeyBytes(key.val))
    THEN Throw(_decodeError("UNSORTED_KEYS", key.idx), key.idx, key.depth)
    ELSE DictionarySetValue(buf, opt, acc, key.val,
                            BencodeDecoder_decode(buf, key.idx, key.depth, opt))

\* The while loop of _decodeDictionary; acc is the object so far, prevKey is
\* <<>> for null and <<bytes>> otherwise.
DictionaryLoop(buf, index, depth, opt, acc, prevKey) ==
    IF _isEOF(buf, index) \/ _currentChar(buf, index) = FLAG_END
    THEN Return(acc, index, depth)
    ELSE DictionaryKey(buf, opt, acc, prevKey, _decodeString(buf, index, depth, opt))

\* _decodeDictionary after its loop.
DictionaryEnd(buf, body) ==
    IF ~body.ok THEN body
    ELSE IF _isEOF(buf, body.idx)
    THEN Throw(_decodeError("UNEXPECTED_END", body.idx), body.idx, body.depth - 1)
    ELSE Return(Dict(body.val), body.idx + 1, body.depth - 1)

_decodeDictionary(buf, index, depth, opt) ==
    IF Exceeds(opt.maxDepth, depth + 1)
    THEN Throw(BencodeDecodeError("MAX_DEPTH_EXCEEDED", {index}), index, depth + 1)
    ELSE DictionaryEnd(buf, DictionaryLoop(buf, index + 1, depth + 1, opt, <<>>, <<>>))

\* BencodeDecoder.decode()
BencodeDecoder_decode(buf, index, depth, opt) ==
    IF _isEOF(buf, index)
    THEN Throw(_decodeError("UNEXPECTED_END", index), index, depth)
    ELSE IF _isInteger(_currentChar(buf, index))
    THEN _decodeString(buf, index, depth, opt)
    ELSE IF _currentChar(buf, index) = FLAG_INTEGER
    THEN IntegerValue(_decodeInteger(buf, index, depth))
    ELSE IF _currentChar(buf, index) = FLAG_LIST
    THEN _decodeList(buf, index, depth, opt)
    ELSE IF _currentChar(buf, index) = FLAG_DICTIONARY
    THEN _decodeDictionary(buf, index, depth, opt)
    ELSE Throw(_decodeError("INVALID_FORMAT", index), index, depth)

\* !data: undefined, null and the empty string are falsy; every Uint8Array is
\* an object and so truthy, whatever its length.
Falsy(arg) == arg.t \in {"undefined", "null"} \/ (arg.t = "str" /\ arg.v = <<>>)

\* A constructor that gives every character of a text one byte.
C21_OneBytePerChar(arg) ==
    IF Falsy(arg)
    THEN Throw(BencodeDecodeError("EMPTY_INPUT", {}), 0, 0)
    ELSE Return(IF arg.t = "str" THEN Bytes_fromString(arg.v, "latin1") ELSE arg.v, 0, 0)

\* new BencodeDecoder(data, options): the buffer, or the error thrown.
BencodeDecoder_constructor(arg) ==
    IF Falsy(arg)
    THEN Throw(BencodeDecodeError("EMPTY_INPUT", {}), 0, 0)
    ELSE Return(IF arg.t = "str" THEN Bytes_fromString(arg.v, "utf8") ELSE arg.v, 0, 0)

\* hasRemainingData that overlooks the last byte.
C5_OffByOne(buf, index) == index + 1 < Len(buf)

hasRemainingData(buf, index) == index < Len(buf)

DefaultOptions ==
    [stringify |-> FALSE, strict |-> FALSE, encoding |-> {},
     maxStringLength |-> {}, maxDepth |-> {}]

\* decode of index.ts after decoder.decode(): the strict check for trailing data.
TrailingCheck(opt, buf, r) ==
    IF ~r.ok THEN r
    ELSE IF opt.strict /\ hasRemainingData(buf, r.idx)
    THEN Throw(BencodeDecodeError("TRAILING_DATA", {}), r.idx, r.depth)
    ELSE r

\* decode of index.ts after new BencodeDecoder(data, options).
DecodeWith(opt, decoder) ==
    IF ~decoder.ok THEN decoder
    ELSE TrailingCheck(opt, decoder.val, BencodeDecoder_decode(decoder.val, 0, 0, opt))

\* decode(data, options) of index.ts.
decode(arg, opt) == DecodeWith(opt, BencodeDecoder_constructor(arg))

\* getCurrentPosition()
getCurrentPosition(index) == index

\* A decode() that starts from the beginning of the buffer at every call.
C24_Rewinds(buf, st, opt) == BencodeDecoder_decode(buf, 0, st.depth, opt)

\* decoder.decode() on an instance whose _index and _currentDepth are those the
\* call before left, st.idx and st.depth.
Instance_decode(buf, st, opt) == BencodeDecoder_decode(buf, st.idx, st.depth, opt)

(***************************************************************************)
(* BencodeEncoder (BencodeEncoder.ts).  The lists and dictionaries of the  *)
(* argument live in a heap, a sequence of objects [kind, items] named by   *)
(* their position, so that one object can be reached along several paths.  *)
(* The items of a list are its elements; those of a dictionary are its     *)
(* entries in Object.keys order.  st is the encoder instance: _buffer (the *)
(* chunks pushed so far), _visited and _path.                              *)
(***************************************************************************)
NewEncoder ==
    [ok |-> TRUE, buffer |-> <<>>, visited |-> {}, path |-> <<>>, err |-> NoError]
EncThrow(st, error) == [st EXCEPT !.ok = FALSE, !.err = error]
Push(st, chunks) == [st EXCEPT !.buffer = @ \o chunks]

RECURSIVE NatToString(_)
NatToString(n) ==
    IF n < 10 THEN <<48 + n>> ELSE Append(NatToString(n \div 10), 48 + (n % 10))

\* String(n) of an integer below 10^21, as code units.
String(n) == IF n < 0 THEN <<FLAG_MINUS>> \o NatToString(-n) ELSE NatToString(n)

\* String(number): the shortest decimal form of an integer below 10^21, the
\* exponent form from 10^21 on, and the names of NaN and the infinities.
Number_toString(number) ==
    CASE number.t = "num" -> String(number.v)
      [] number.t = "nan" -> <<78, 97, 78>>
      [] number.t = "inf" -> (IF number.v THEN <<FLAG_MINUS>> ELSE <<>>)
                             \o <<73, 110, 102, 105, 110, 105, 116, 121>>
      [] number.t = "exp" -> (IF number.v.neg THEN <<FLAG_MINUS>> ELSE <<>>)
                             \o <<number.v.digit, FLAG_END, FLAG_PLUS>>
                             \o NatToString(number.v.zeros)

\* Math.trunc of a number: the whole part with the sign for a number with a
\* fractional part (-0, which String writes as 0, is Num(0)), and the number
\* itself for an integer, NaN and the infinities.
Math_trunc(number) ==
    IF number.t = "frac"
    THEN Num(IF number.v.neg THEN -number.v.whole ELSE number.v.whole)
    ELSE number

_encodeBytes(st, bytes) ==
    Push(st, <<Bytes_fromString(String(Len(bytes)), "utf8"), <<FLAG_STR_DELIMITER>>, bytes>>)

_encodeString(st, str) ==
    LET encoded == Bytes_fromString(str, "utf8")
    IN Push(st, <<Bytes_fromString(String(Len(encoded)), "utf8"),
                  <<FLAG_STR_DELIMITER>>, encoded>>)

_encodeInteger(st, number) ==
    Push(st, <<<<FLAG_INTEGER>>, Bytes_fromString(Number_toString(Math_trunc(number)), "utf8"),
               <<FLAG_END>>>>)

\* The comparison of Array.prototype.sort without a comparator: by UTF-16
\* code units.
SortCompare(x, y) == LexCompare(x, y)

\* keys.sort(), the keys being distinct.
Array_sort(keys) ==
    LET K == {keys[i] : i \in 1..Len(keys)}
    IN [i \in 1..Len(keys) |->
           CHOOSE k \in K : Cardinality({j \in K : SortCompare(j, k) < 0}) = i - 1]

\* Object.keys(data) without the sort.
C3_Unsorted(entries) == Object_keys(entries)

\* Object.keys(data).sort()
SortedKeys(entries) == Array_sort(Object_keys(entries))

\* data[key]
Get(entries, key) == (CHOOSE e \in {entries[i] : i \in 1..Len(entries)} : e.k = key).val

\* A test that finds nothing to skip.
C19_NeverSkip(value) == FALSE

IsNullish(value) == value.t \in {"null", "undefined"}

\* The index among the elements that are not skipped.
C9_CountEmitted(items, i) == Num(Cardinality({j \in 1..i : ~IsNullish(items[j])}))

\* The index pushed on the path for element i (0-based) of a list.
ListPathSegment(items, i) == Num(i)

RECURSIVE _encodeType(_, _, _)
RECURSIVE ListItems(_, _, _, _)
RECURSIVE DictionaryItems(_, _, _, _, _)

PathPush(st, segment) == [st EXCEPT !.path = Append(@, segment)]
\* this._path.pop() left out.
C30_NoPop(st) == st
PathPop(st) == [st EXCEPT !.path = SubSeq(@, 1, Len(@) - 1)]

\* this._path.pop() after an element, and the loop again.
ListItemDone(h, items, i, r) ==
    IF ~r.ok THEN r ELSE ListItems(h, PathPop(r), items, i + 1)

\* The for loop of _encodeList, from 0-based index i.
ListItems(h, st, items, i) ==
    IF i >= Len(items) THEN st
    ELSE IF IsNullish(items[i + 1]) THEN ListItems(h, st, items, i + 1)
    ELSE ListItemDone(h, items, i,
                      _encodeType(h, PathPush(st, ListPathSegment(items, i)), items[i + 1]))

\* this._visited.add(data)
VisitedAdd(st, id) == [st EXCEPT !.visited = @ \cup {id}]

\* this._visited.delete(data) left out.
C8_NoDelete(st, id) == st

\* this._visited.delete(data)
VisitedDelete(st, id) == [st EXCEPT !.visited = @ \ {id}]

\* The end of _encodeList and of _encodeDictionary, after the loop.
ContainerEnd(id, r) ==
    IF ~r.ok THEN r ELSE VisitedDelete(Push(r, <<<<FLAG_END>>>>), id)

_encodeList(h, st, id) ==
    IF id \in st.visited
    THEN EncThrow(st, BencodeEncodeError("CIRCULAR_REFERENCE", st.path))
    ELSE ContainerEnd(id, ListItems(h, Push(VisitedAdd(st, id), <<<<FLAG_LIST>>>>),
                                    h[id].items, 0))

\* this._path.pop() after a value, and the loop again.
DictionaryItemDone(h, entries, keys, i, r) ==
    IF ~r.ok THEN r ELSE DictionaryItems(h, PathPop(r), entries, keys, i + 1)

\* The for loop of _encodeDictionary over keys, from position i (1-based).
DictionaryItems(h, st, entries, keys, i) ==
    IF i > Len(keys) THEN st
    ELSE IF IsNullish(Get(entries, keys[i])) THEN DictionaryItems(h, st, entries, keys, i + 1)
    ELSE DictionaryItemDone(h, entries, keys, i,
                            _encodeType(h, PathPush(_encodeString(st, keys[i]), Str(keys[i])),
                                        Get(entries, keys[i])))

_encodeDictionary(h, st, id) ==
    IF id \in st.visited
    THEN EncThrow(st, BencodeEncodeError("CIRCULAR_REFERENCE", st.path))
    ELSE ContainerEnd(id, DictionaryItems(h, Push(VisitedAdd(st, id), <<<<FLAG_DICTIONARY>>>>),
                                          h[id].items, SortedKeys(h[id].items), 1))

\* typeof null is 'object': _encodeDictionary(null), whose _visited.add(null)
\* is a TypeError of the WeakSet.
_encodeType(h, st, value) ==
    IF value.t = "bytes" THEN _encodeBytes(st, value.v)
    ELSE IF value.t = "ref" /\ h[value.v].kind = "list" THEN _encodeList(h, st, value.v)
    ELSE IF value.t = "bool"
    THEN _encodeInteger(st, Num(IF value.v THEN 1 ELSE 0))
    ELSE IF value.t \in NumberTypes THEN _encodeInteger(st, value)
    ELSE IF value.t = "str" THEN _encodeString(st, value.v)
    ELSE IF value.t = "ref" THEN _encodeDictionary(h, st, value.v)
    ELSE IF value.t = "null" THEN EncThrow(st, TypeError)
    ELSE EncThrow(st, BencodeEncodeError("UNSUPPORTED_TYPE", st.path))

\* What a call of the encoder gives back: the value returned or the error
\* thrown, with the instance as the call left it.
EncoderOutcome(st, value) ==
    [ok |-> st.ok, val |-> value, err |-> st.err, visited |-> st.visited, path |-> st.path]

\* The return of BencodeEncoder.encode(data), st being the instance after
\* _encodeType(data).
\* A return that decodes the output under options.encoding.
C20_HonoursEncoding(st, opt) ==
    IF ~st.ok THEN EncoderOutcome(st, Undefined)
    ELSE EncoderOutcome(st, IF opt.stringify
                            THEN Str(Bytes_toString(Bytes_concat(st.buffer), EncodingOf(opt)))
                            ELSE U8(Bytes_concat(st.buffer)))

EncoderReturn(st, opt) ==
    IF ~st.ok THEN EncoderOutcome(st, Undefined)
    ELSE EncoderOutcome(st, IF opt.stringify
                            THEN Str(Bytes_toString(Bytes_concat(st.buffer), "utf8"))
                            ELSE U8(Bytes_concat(st.buffer)))

\* BencodeEncoder.encode(data)
BencodeEncoder_encode(h, value, opt) == EncoderReturn(_encodeType(h, NewEncoder, value), opt)

\* encode, encodeToBytes and encodeToString of index.ts.
encode(h, value, opt) == BencodeEncoder_encode(h, value, opt)

encodeToBytes(h, value) == BencodeEncoder_encode(h, value, DefaultOptions)

\* Bytes.toString(bytes, encoding) of encodeToString.
ToStringWith(opt, r) ==
    IF ~r.ok THEN r ELSE [r EXCEPT !.val = Str(Bytes_toString(r.val.v, EncodingOf(opt)))]

encodeToString(h, value, opt) ==
    ToStringWith(opt, BencodeEncoder_encode(h, value, [DefaultOptions EXCEPT !.stringify = FALSE]))

(***************************************************************************)
(* The state machine: an argument is built from the sets cfg names, then   *)
(* one function of index.ts is called on it.                               *)
(***************************************************************************)
MaxChunks == 4
MaxObjects == 2
MaxEntries == 2
MaxDepthSeen == 4

Options(stringify, strict, encoding, maxStringLength, maxDepth) ==
    [stringify |-> stringify, strict |-> strict, encoding |-> encoding,
     maxStringLength |-> maxStringLength, maxDepth |-> maxDepth]

NoCall == Return(Undefined, 0, 0)

InitWith(c) ==
    /\ phase = "input"
    /\ cfg = c
    /\ data = <<>>
    /\ nChunks = 0
    /\ heap = <<>>
    /\ root \in c.roots
    /\ nEntries = 0
    /\ call = ""
    /\ input = Undefined
    /\ options = DefaultOptions
    /\ result = NoCall

\* The caller extends the argument of decode by one fragment.
Feed(chunk) ==
    /\ phase = "input"
    /\ nChunks < MaxChunks
    /\ data' = data \o chunk
    /\ nChunks' = nChunks + 1
    /\ UNCHANGED <<phase, cfg, heap, root, nEntries, call, input, options, result>>

\* decode's argument: the data as a Uint8Array or as a string, or nothing.
InputOf(kind) ==
    IF kind = "bytes" THEN U8(data)
    ELSE IF kind = "str" THEN Str(data)
    ELSE IF kind = "null" THEN Null ELSE Undefined

\* decode(input, opt)
Decode(kind, opt) ==
    /\ phase = "input"
    /\ kind \in {"null", "undefined"} => data = <<>>
    /\ phase' = "done"
    /\ call' = "decode"
    /\ input' = InputOf(kind)
    /\ options' = opt
    /\ result' = decode(InputOf(kind), opt)
    /\ UNCHANGED <<cfg, data, nChunks, heap, root, nEntries>>

NextDecode ==
    \/ \E chunk \in cfg.chunks : Feed(chunk)
    \/ \E kind \in cfg.kinds, opt \in cfg.opts : Decode(kind, opt)

\* The caller creates an empty list ([]) or dictionary ({}).
NewObject(kind) ==
    /\ phase = "input"
    /\ root.t = "ref"
    /\ Len(heap) < MaxObjects
    /\ heap' = Append(heap, [kind |-> kind, items |-> <<>>])
    /\ UNCHANGED <<phase, cfg, data, nChunks, root, nEntries, call, input, options, result>>

Values == cfg.prims \cup {Ref(id) : id \in 1..Len(heap)}

\* list.push(value)
ListPush(id, value) ==
    /\ phase = "input"
    /\ nEntries < MaxEntries
    /\ heap[id].kind = "list"
    /\ heap' = [heap EXCEPT ![id].items = Append(@, value)]
    /\ nEntries' = nEntries + 1
    /\ UNCHANGED <<phase, cfg, data, nChunks, root, call, input, options, result>>

\* dictionary[key] = value, for a new key
DictSet(id, key, value) ==
    /\ phase = "input"
    /\ nEntries < MaxEntries
    /\ heap[id].kind = "dict"
    /\ \A i \in 1..Len(heap[id].items) : heap[id].items[i].k # key
    /\ heap' = [heap EXCEPT ![id].items = ObjSet(@, key, value)]
    /\ nEntries' = nEntries + 1
    /\ UNCHANGED <<phase, cfg, data, nChunks, root, call, input, options, result>>

\* The root is a value encode can be handed: a reference names an object.
RootExists == root.t = "ref" => root.v \in 1..Len(heap)

\* encode(root, opt)
Encode(opt) ==
    /\ phase = "input"
    /\ RootExists
    /\ phase' = "done"
    /\ call' = "encode"
    /\ options' = opt
    /\ result' = encode(heap, root, opt)
    /\ UNCHANGED <<cfg, data, nChunks, heap, root, nEntries, input>>

\* encodeToBytes(root)
EncodeToBytes ==
    /\ phase = "input"
    /\ RootExists
    /\ phase' = "done"
    /\ call' = "encodeToBytes"
    /\ options' = DefaultOptions
    /\ result' = encodeToBytes(heap, root)
    /\ UNCHANGED <<cfg, data, nChunks, heap, root, nEntries, input>>

\* encodeToString(root, opt)
EncodeToString(opt) ==
    /\ phase = "input"
    /\ RootExists
    /\ phase' = "done"
    /\ call' = "encodeToString"
    /\ options' = opt
    /\ result' = encodeToString(heap, root, opt)
    /\ UNCHANGED <<cfg, data, nChunks, heap, root, nEntries, input>>

NextEncode ==
    \/ \E kind \in {"list", "dict"} : NewObject(kind)
    \/ \E id \in 1..Len(heap), value \in Values : ListPush(id, value)
    \/ \E id \in 1..Len(heap), key \in cfg.keys, value \in Values : DictSet(id, key, value)
    \/ \E opt \in cfg.opts : Encode(opt)
    \/ EncodeToBytes
    \/ \E opt \in cfg.opts : EncodeToString(opt)

EncodeCalls == {"encode", "encodeToBytes", "encodeToString"}

\* decode(output, opt): the caller hands what encode returned back to decode.
DecodeOutput(opt) ==
    /\ phase = "done"
    /\ call \in EncodeCalls
    /\ result.ok
    /\ phase' = "reloaded"
    /\ call' = "decode"
    /\ input' = result.val
    /\ options' = opt
    /\ result' = decode(result.val, opt)
    /\ UNCHANGED <<cfg, data, nChunks, heap, root, nEntries>>

NextRoundTrip ==
    \/ NextEncode
    \/ \E opt \in cfg.dopts : DecodeOutput(opt)

\* new BencodeDecoder(input, opt): the instance is kept.
NewDecoder(kind, opt) ==
    /\ phase = "input"
    /\ kind \in {"null", "undefined"} => data = <<>>
    /\ phase' = "instance"
    /\ call' = "new"
    /\ input' = InputOf(kind)
    /\ options' = opt
    /\ result' = IF BencodeDecoder_constructor(InputOf(kind)).ok THEN NoCall
                 ELSE BencodeDecoder_constructor(InputOf(kind))
    /\ UNCHANGED <<cfg, data, nChunks, heap, root, nEntries>>

\* decoder.decode() on the instance, whatever the call before did; result
\* holds _index and _currentDepth as the call leaves them.
InstanceDecode ==
    /\ phase = "instance"
    /\ BencodeDecoder_constructor(input).ok
    /\ result.depth < MaxDepthSeen
    /\ call' = "decode()"
    /\ result' = Instance_decode(BencodeDecoder_constructor(input).val, result, options)
    /\ UNCHANGED <<phase, cfg, data, nChunks, heap, root, nEntries, input, options>>

NextInstance ==
    \/ \E chunk \in cfg.chunks : Feed(chunk)
    \/ \E kind \in cfg.kinds, opt \in cfg.opts : NewDecoder(kind, opt)
    \/ InstanceDecode

\* The value decode returned, as the caller holds it: every list and
\* dictionary of it an object of its own in the heap h.  The result is the
\* heap and the value, a primitive or the reference to its object.
RECURSIVE Load(_, _)
RECURSIVE LoadItems(_, _, _, _)
Loaded(h, value) == [heap |-> h, ref |-> value]

\* The item i of the object id, once loaded as c, is put in its place.
LoadItem(id, items, i, c) ==
    LoadItems([c.heap EXCEPT ![id].items =
                   Append(@, IF c.heap[id].kind = "list" THEN c.ref ELSE Entry(items[i].k, c.ref))],
              id, items, i + 1)

LoadItems(h, id, items, i) ==
    IF i > Len(items) THEN Loaded(h, Ref(id))
    ELSE LoadItem(id, items, i, Load(h, IF h[id].kind = "list" THEN items[i] ELSE items[i].val))

Load(h, value) ==
    IF value.t = "list"
    THEN LoadItems(Append(h, [kind |-> "list", items |-> <<>>]), Len(h) + 1, value.v, 1)
    ELSE IF value.t = "dict"
    THEN LoadItems(Append(h, [kind |-> "dict", items |-> <<>>]), Len(h) + 1, value.v, 1)
    ELSE Loaded(h, value)

\* The call of encodeToBytes on what the object c holds.
EncodeLoaded(c) == encodeToBytes(c.heap, c.ref)

\* encodeToBytes(decoded): the caller hands what decode returned to the encoder.
EncodeResult ==
    /\ phase = "done"
    /\ call = "decode"
    /\ result.ok
    /\ phase' = "reencoded"
    /\ call' = "encodeToBytes"
    /\ heap' = Load(<<>>, result.val).heap
    /\ root' = Load(<<>>, result.val).ref
    /\ result' = EncodeLoaded(Load(<<>>, result.val))
    /\ UNCHANGED <<cfg, data, nChunks, nEntries, input, options>>

NextReencode ==
    \/ NextDecode
    \/ EncodeResult

Bytes1(b) == <<49, FLAG_STR_DELIMITER, b>>      \* the byte-string of the one byte b
Empty == <<48, FLAG_STR_DELIMITER>>             \* the empty byte-string 0:

(***************************************************************************)
(* SpecStrict: decode of dictionaries, lists and trailing bytes, with and  *)
(* without strict and stringify.                                           *)
(***************************************************************************)
StrictConfig ==
    [chunks |-> {<<FLAG_DICTIONARY>>, <<FLAG_LIST>>, <<FLAG_END>>,
                 <<FLAG_INTEGER, 49, FLAG_END>>,
                 Bytes1(97) \o Empty, Bytes1(98) \o Empty,
                 Bytes1(254) \o Empty, Bytes1(255) \o Empty},
     kinds |-> {"bytes"},
     opts |-> {Options(sy, st, {}, {}, {}) : sy \in BOOLEAN, st \in BOOLEAN},
     dopts |-> {}, roots |-> {Undefined}, prims |-> {}, keys |-> {}]

SpecStrict == InitWith(StrictConfig) /\ [][NextDecode]_vars

(***************************************************************************)
(* SpecLimits: decode of bytes, of text and of nothing, with and without   *)
(* maxStringLength; the fragments include a length prefix with a sign.     *)
(***************************************************************************)
LimitsConfig ==
    [chunks |-> {<<FLAG_DICTIONARY>>, <<FLAG_LIST>>, <<FLAG_END>>,
                 <<FLAG_MINUS, 49, FLAG_STR_DELIMITER>>,
                 Empty, Bytes1(97), <<50, FLAG_STR_DELIMITER, 97, 97>>},
     kinds |-> {"bytes", "str", "null", "undefined"},
     opts |-> {Options(FALSE, FALSE, {}, m, {}) : m \in {{}, {0}, {1}}},
     dopts |-> {}, roots |-> {Undefined}, prims |-> {}, keys |-> {}]

SpecLimits == InitWith(LimitsConfig) /\ [][NextDecode]_vars

(***************************************************************************)
(* SpecText: encode of values holding text, and decode of the output.  The *)
(* keys are "a", U+FF5E and U+1F600 (a surrogate pair); the text is U+FEFF *)
(* followed by "a".                                                        *)
(***************************************************************************)
TextConfig ==
    [chunks |-> {}, kinds |-> {},
     opts |-> {DefaultOptions},
     dopts |-> {Options(TRUE, FALSE, {}, {}, {})},
     roots |-> {Ref(1), Str(<<65279, 97>>)},
     prims |-> {Num(1)},
     keys |-> {<<97>>, <<65374>>, <<55357, 56832>>}]

SpecText == InitWith(TextConfig) /\ [][NextRoundTrip]_vars

(***************************************************************************)
(* SpecGraph: encode of object graphs with shared and cyclic references,   *)
(* null elements and functions, and of roots that are no object at all.    *)
(***************************************************************************)
GraphConfig ==
    [chunks |-> {}, kinds |-> {},
     opts |-> {DefaultOptions},
     dopts |-> {},
     roots |-> {Ref(1), Null, Undefined, Func},
     prims |-> {Num(1), Null, Undefined, Func},
     keys |-> {<<97>>, <<98>>}]

SpecGraph == InitWith(GraphConfig) /\ [][NextEncode]_vars

(***************************************************************************)
(* SpecEnds: decode of inputs cut short or nested, byte by byte for the    *)
(* markers, with and without maxDepth; 120 is a byte that starts no value. *)
(***************************************************************************)
EndsConfig ==
    [chunks |-> {<<FLAG_DICTIONARY>>, <<FLAG_LIST>>, <<FLAG_END>>, <<FLAG_INTEGER>>,
                 <<49>>, Empty, Bytes1(97), <<120>>},
     kinds |-> {"bytes"},
     opts |-> {Options(FALSE, FALSE, {}, {}, m) : m \in {{}, {0}, {1}, {2}}},
     dopts |-> {}, roots |-> {Undefined}, prims |-> {}, keys |-> {}]

SpecEnds == InitWith(EndsConfig) /\ [][NextDecode]_vars

(***************************************************************************)
(* SpecNumbers: decode of integer literals with signs, zeros and fractions,*)
(* alone or as the first element of a list.                                *)
(***************************************************************************)
NumbersConfig ==
    [chunks |-> {<<FLAG_INTEGER>>, <<FLAG_INTEGER, FLAG_PLUS>>, <<FLAG_INTEGER, FLAG_MINUS>>,
                 <<FLAG_INTEGER, FLAG_PLUS, FLAG_MINUS>>, <<FLAG_MINUS>>,
                 <<48>>, <<49>>, <<FLAG_DOT, 53>>, <<FLAG_END>>, <<FLAG_LIST>>},
     kinds |-> {"bytes", "str"},
     opts |-> {DefaultOptions},
     dopts |-> {}, roots |-> {Undefined}, prims |-> {}, keys |-> {}]

SpecNumbers == InitWith(NumbersConfig) /\ [][NextDecode]_vars

(***************************************************************************)
(* SpecPositions: decode calls that end in each of the nine decode error   *)
(* codes: with and without strict, with and without the limits of 1.       *)
(***************************************************************************)
PositionsConfig ==
    [chunks |-> {<<FLAG_DICTIONARY>>, <<FLAG_LIST>>, <<FLAG_END>>,
                 Empty, Bytes1(97), <<50, FLAG_STR_DELIMITER, 97, 97>>,
                 <<FLAG_INTEGER, FLAG_MINUS, 48, FLAG_END>>, <<FLAG_INTEGER, 48, 48>>},
     kinds |-> {"bytes", "str", "undefined"},
     opts |-> {Options(FALSE, s, {}, m, m) : s \in BOOLEAN, m \in {{}, {1}}},
     dopts |-> {}, roots |-> {Undefined}, prims |-> {}, keys |-> {}]

SpecPositions == InitWith(PositionsConfig) /\ [][NextDecode]_vars

(***************************************************************************)
(* SpecNumerals: encode of numbers, alone and in lists and dictionaries:   *)
(* integers, numbers with a fractional part, -0, NaN, the infinities and   *)
(* 10^21.                                                                  *)
(***************************************************************************)
NumeralsConfig ==
    [chunks |-> {}, kinds |-> {},
     opts |-> {DefaultOptions},
     dopts |-> {},
     roots |-> {Ref(1), Num(0), Num(42), Num(-42), Frac(FALSE, 42, 9), Frac(TRUE, 42, 9),
                Frac(FALSE, 0, 5), Frac(TRUE, 0, 5), Frac(TRUE, 0, 0),
                NaN, Infinity(FALSE), Infinity(TRUE), Exp(FALSE, 49, 21)},
     prims |-> {Num(42), Frac(TRUE, 0, 5), NaN},
     keys |-> {<<97>>}]

SpecNumerals == InitWith(NumeralsConfig) /\ [][NextEncode]_vars

(***************************************************************************)
(* SpecEncodings: encode and encodeToString of values whose output holds   *)
(* the byte FF or the bytes C3 A9 of U+00E9, with and without stringify,   *)
(* under UTF-8 and the single-byte encodings.                              *)
(***************************************************************************)
EncodingsConfig ==
    [chunks |-> {}, kinds |-> {},
     opts |-> {Options(s, FALSE, e, {}, {}) :
                  s \in BOOLEAN, e \in {{}, {"utf8"}, {"latin1"}, {"binary"}, {"ascii"}}},
     dopts |-> {},
     roots |-> {Ref(1), U8(<<255>>), Str(<<233>>)},
     prims |-> {U8(<<255>>)},
     keys |-> {<<233>>}]

SpecEncodings == InitWith(EncodingsConfig) /\ [][NextEncode]_vars

(***************************************************************************)
(* SpecChars: decode of text: ASCII, U+00E9 (two bytes in UTF-8), U+20AC   *)
(* (three bytes), and the two halves of the surrogate pair of U+1F600,     *)
(* together or alone.                                                      *)
(***************************************************************************)
CharsConfig ==
    [chunks |-> {<<49, FLAG_STR_DELIMITER>>, <<50, FLAG_STR_DELIMITER>>, <<FLAG_LIST>>, <<FLAG_END>>,
                 <<97>>, <<233>>, <<8364>>, <<55357>>, <<56832>>},
     kinds |-> {"str"},
     opts |-> {Options(s, FALSE, {}, {}, {}) : s \in BOOLEAN},
     dopts |-> {}, roots |-> {Undefined}, prims |-> {}, keys |-> {}]

SpecChars == InitWith(CharsConfig) /\ [][NextDecode]_vars

(***************************************************************************)
(* SpecKeys: decode, without strict, of dictionaries with the keys a, b,   *)
(* 1, 2 and the bytes FE and FF, each with the empty string as value.      *)
(***************************************************************************)
KeysConfig ==
    [chunks |-> {<<FLAG_DICTIONARY>>, <<FLAG_END>>,
                 Bytes1(97) \o Empty, Bytes1(98) \o Empty,
                 Bytes1(49) \o Empty, Bytes1(50) \o Empty,
                 Bytes1(254) \o Empty, Bytes1(255) \o Empty},
     kinds |-> {"bytes"},
     opts |-> {Options(s, FALSE, {}, {}, {}) : s \in BOOLEAN},
     dopts |-> {}, roots |-> {Undefined}, prims |-> {}, keys |-> {}]

SpecKeys == InitWith(KeysConfig) /\ [][NextDecode]_vars

(***************************************************************************)
(* SpecInstance: one BencodeDecoder over a buffer of values, lists and a   *)
(* byte that starts no value, with decode() called again and again, with   *)
(* and without the limits of 1.                                            *)
(***************************************************************************)
InstanceConfig ==
    [chunks |-> {<<FLAG_LIST>>, <<FLAG_END>>, <<FLAG_INTEGER, 49, FLAG_END>>,
                 Bytes1(97), <<50, FLAG_STR_DELIMITER, 97, 97>>, <<120>>},
     kinds |-> {"bytes"},
     opts |-> {Options(FALSE, FALSE, {}, m, m) : m \in {{}, {1}}},
     dopts |-> {}, roots |-> {Undefined}, prims |-> {}, keys |-> {}]

SpecInstance == InitWith(InstanceConfig) /\ [][NextInstance]_vars

(***************************************************************************)
(* SpecCanon: encode of lists and dictionaries with the keys "a", U+FF5E   *)
(* and U+1F600, and strict decode of the output.                           *)
(***************************************************************************)
CanonConfig ==
    [chunks |-> {}, kinds |-> {},
     opts |-> {DefaultOptions},
     dopts |-> {Options(s, TRUE, {}, {}, {}) : s \in BOOLEAN},
     roots |-> {Ref(1)},
     prims |-> {Num(1), Str(<<97>>), U8(<<255>>)},
     keys |-> {<<97>>, <<65374>>, <<55357, 56832>>}]

SpecCanon == InitWith(CanonConfig) /\ [][NextRoundTrip]_vars

(***************************************************************************)
(* SpecReencode: decode of byte sequences and encodeToBytes of the value   *)
(* decoded: lists, dictionaries with the keys a, b, FE and FF, the         *)
(* integer 1, the empty string and the string of the byte FF.              *)
(***************************************************************************)
ReencodeConfig ==
    [chunks |-> {<<FLAG_DICTIONARY>>, <<FLAG_LIST>>, <<FLAG_END>>,
                 <<FLAG_INTEGER, 49, FLAG_END>>, Bytes1(255),
                 Bytes1(97) \o Empty, Bytes1(98) \o Empty,
                 Bytes1(254) \o Empty, Bytes1(255) \o Empty},
     kinds |-> {"bytes"},
     opts |-> {DefaultOptions},
     dopts |-> {}, roots |-> {Undefined}, prims |-> {}, keys |-> {}]

SpecReencode == InitWith(ReencodeConfig) /\ [][NextReencode]_vars

(***************************************************************************)
(* What the properties are stated with.                                    *)
(***************************************************************************)
\* a is strictly below b in byte-lexicographic order.
ByteLess(a, b) ==
    \E i \in 1..Len(b) :
        /\ \A j \in 1..(i - 1) : j <= Len(a) /\ a[j] = b[j]
        /\ (i = Len(a) + 1 \/ (i <= Len(a) /\ a[i] < b[i]))

\* A scan of the value at index for the order of the raw key bytes of its
\* dictionaries: "fault" when the first thing wrong with the input is a key
\* not strictly above the key before it, "error" when it is something else,
\* "ok" when nothing is wrong.
RECURSIVE KeyFault(_, _)
RECURSIVE ItemsFault(_, _, _, _)
KeyFault(buf, index) ==
    IF ByteAt(buf, index) = FLAG_LIST THEN ItemsFault(buf, index + 1, FALSE, <<>>)
    ELSE IF ByteAt(buf, index) = FLAG_DICTIONARY THEN ItemsFault(buf, index + 1, TRUE, <<>>)
    ELSE IF BencodeDecoder_decode(buf, index, 0, DefaultOptions).ok THEN "ok" ELSE "error"

ItemsFault(buf, index, isDict, prev) ==
    IF index >= Len(buf) THEN "error"
    ELSE IF ByteAt(buf, index) = FLAG_END THEN "ok"
    ELSE LET key == _decodeString(buf, index, 0, DefaultOptions)
             at == IF isDict THEN key.idx ELSE index
             inner == KeyFault(buf, at)
             value == BencodeDecoder_decode(buf, at, 0, DefaultOptions)
         IN IF isDict /\ ~key.ok THEN "error"
            ELSE IF isDict /\ prev # <<>> /\ ~ByteLess(prev[1], key.val.v) THEN "fault"
            ELSE IF inner # "ok" THEN inner
            ELSE IF ~value.ok THEN "error"
            ELSE ItemsFault(buf, value.idx, isDict, IF isDict THEN <<key.val.v>> ELSE <<>>)

\* The buffer of the decoder of the call.
Buffer == BencodeDecoder_constructor(input).val

\* The same call of decode without and with strict.
Loose == decode(input, [options EXCEPT !.strict = FALSE])
Tight == decode(input, [options EXCEPT !.strict = TRUE])

\* The same call of decode on the bytes of the first value alone.
FirstAlone == decode(U8(SubSeq(Buffer, 1, Loose.idx)), [options EXCEPT !.strict = FALSE])

\* The byte lengths of the strings and dictionary keys of a decoded value.
RECURSIVE ByteLengths(_)
ByteLengths(value) ==
    IF value.t = "bytes" THEN {Len(value.v)}
    ELSE IF value.t = "str" THEN {Len(Bytes_fromString(value.v, "utf8"))}
    ELSE IF value.t = "list"
    THEN UNION {ByteLengths(value.v[i]) : i \in 1..Len(value.v)}
    ELSE IF value.t = "dict"
    THEN UNION {{Len(Bytes_fromString(value.v[i].k, "utf8"))} \cup ByteLengths(value.v[i].val) :
                i \in 1..Len(value.v)}
    ELSE {}

\* The number written in the digits that end at position j of buf.
RECURSIVE DigitsBefore(_, _)
DigitsBefore(buf, j) ==
    IF j >= 1 /\ _isInteger(buf[j]) THEN (DigitsBefore(buf, j - 1) * 10) + (buf[j] - 48) ELSE 0

\* A decoded value up to the order of the keys of its dictionaries.
RECURSIVE Norm(_)
Norm(value) ==
    IF value.t = "list" THEN List([i \in 1..Len(value.v) |-> Norm(value.v[i])])
    ELSE IF value.t = "dict"
    THEN Dict({Entry(value.v[i].k, Norm(value.v[i].val)) : i \in 1..Len(value.v)})
    ELSE value

\* The value encode was handed, up to the order of the keys of its dictionaries
\* (of a value without a cycle).
RECURSIVE NormOf(_, _)
NormOf(h, value) ==
    IF value.t # "ref" THEN value
    ELSE IF h[value.v].kind = "list"
    THEN List([i \in 1..Len(h[value.v].items) |-> NormOf(h, h[value.v].items[i])])
    ELSE Dict({Entry(h[value.v].items[i].k, NormOf(h, h[value.v].items[i].val)) :
               i \in 1..Len(h[value.v].items)})

\* The value is built from integers, text, lists and dictionaries only (of a
\* value without a cycle).
RECURSIVE Plain(_, _)
Plain(h, value) ==
    IF value.t = "ref"
    THEN \A i \in 1..Len(h[value.v].items) :
             Plain(h, IF h[value.v].kind = "list" THEN h[value.v].items[i]
                      ELSE h[value.v].items[i].val)
    ELSE value.t \in {"num", "str"}

\* The entries of a dictionary inserted afresh in the order p.
RECURSIVE Reinsert(_, _, _)
Reinsert(entries, p, i) ==
    IF i = 0 THEN <<>>
    ELSE ObjSet(Reinsert(entries, p, i - 1), entries[p[i]].k, entries[p[i]].val)

Orders(object) ==
    IF object.kind = "list" THEN {object}
    ELSE {[kind |-> "dict", items |-> Reinsert(object.items, p, Len(object.items))] :
          p \in Permutations(1..Len(object.items))}

\* The heaps that hold the entries of h, every dictionary in any insertion order.
Reorderings(h) ==
    {g \in [1..Len(h) -> UNION {Orders(h[id]) : id \in 1..Len(h)}] :
        \A id \in 1..Len(h) : g[id] \in Orders(h[id])}

\* The elements of a list and the properties of a dictionary as the encoder
\* goes through them, each with the path segment that names it.
Children(h, id) ==
    IF h[id].kind = "list"
    THEN [i \in 1..Len(h[id].items) |-> [seg |-> Num(i - 1), val |-> h[id].items[i]]]
    ELSE LET keys == SortedKeys(h[id].items)
         IN [i \in 1..Len(keys) |-> [seg |-> Str(keys[i]), val |-> Get(h[id].items, keys[i])]]

\* The first thing in traversal order that stops the encoding of value, and the
\* path to it: "cycle" for a reference to an ancestor, "unsupported" for a value
\* of no encodable type (when rejecting), "ok" when there is none.
RECURSIVE Walk(_, _, _, _, _)
RECURSIVE WalkChildren(_, _, _, _, _, _)
Walk(h, value, ancestors, path, rejecting) ==
    IF value.t = "ref"
    THEN IF value.v \in ancestors THEN [ev |-> "cycle", path |-> path]
         ELSE WalkChildren(h, Children(h, value.v), 1, ancestors \cup {value.v}, path, rejecting)
    ELSE IF rejecting /\ value.t \in {"function", "undefined", "null"}
    THEN [ev |-> "unsupported", path |-> path]
    ELSE [ev |-> "ok", path |-> <<>>]

WalkChildren(h, children, i, ancestors, path, rejecting) ==
    IF i > Len(children) THEN [ev |-> "ok", path |-> <<>>]
    ELSE IF IsNullish(children[i].val)
    THEN WalkChildren(h, children, i + 1, ancestors, path, rejecting)
    ELSE LET r == Walk(h, children[i].val, ancestors, Append(path, children[i].seg), rejecting)
         IN IF r.ev # "ok" THEN r
            ELSE WalkChildren(h, children, i + 1, ancestors, path, rejecting)

Netstring(bytes) == Bytes_fromString(String(Len(bytes)), "utf8") \o <<FLAG_STR_DELIMITER>> \o bytes

\* The bencoding of a value without a cycle, written out as a tree: a list or
\* dictionary is written wherever a reference to it stands.
RECURSIVE Unfold(_, _)
RECURSIVE UnfoldChildren(_, _, _)
Unfold(h, value) ==
    IF value.t = "ref"
    THEN <<IF h[value.v].kind = "list" THEN FLAG_LIST ELSE FLAG_DICTIONARY>>
         \o UnfoldChildren(h, Children(h, value.v), 1) \o <<FLAG_END>>
    ELSE IF value.t = "num"
    THEN <<FLAG_INTEGER>> \o Bytes_fromString(String(value.v), "utf8") \o <<FLAG_END>>
    ELSE IF value.t = "str" THEN Netstring(Bytes_fromString(value.v, "utf8"))
    ELSE IF value.t = "bytes" THEN Netstring(value.v)
    ELSE <<>>

UnfoldChildren(h, children, i) ==
    IF i > Len(children) THEN <<>>
    ELSE IF IsNullish(children[i].val) THEN UnfoldChildren(h, children, i + 1)
    ELSE (IF children[i].seg.t = "str"
          THEN Netstring(Bytes_fromString(children[i].seg.v, "utf8")) ELSE <<>>)
         \o Unfold(h, children[i].val) \o UnfoldChildren(h, children, i + 1)

Nowhere == [t |-> "nowhere", v |-> 0]

\* The value a path leads to from value, or Nowhere.
RECURSIVE Follow(_, _, _)
Follow(h, value, path) ==
    IF path = <<>> THEN value
    ELSE IF value.t # "ref" THEN Nowhere
    ELSE IF h[value.v].kind = "list"
    THEN IF Head(path).t = "num" /\ Head(path).v >= 0 /\ Head(path).v < Len(h[value.v].items)
         THEN Follow(h, h[value.v].items[Head(path).v + 1], Tail(path))
         ELSE Nowhere
    ELSE IF Head(path).t = "str"
            /\ \E i \in 1..Len(h[value.v].items) : h[value.v].items[i].k = Head(path).v
    THEN Follow(h, Get(h[value.v].items, Head(path).v), Tail(path))
    ELSE Nowhere

\* The lists and dictionaries a path goes through, the one it leads to excepted.
RECURSIVE Ancestors(_, _, _)
Ancestors(h, value, path) ==
    IF path = <<>> \/ value.t # "ref" THEN {}
    ELSE {value.v} \cup Ancestors(h, Follow(h, value, <<Head(path)>>), Tail(path))

Decoded == phase = "done" /\ call = "decode"
Encoded == phase = "done" /\ call \in EncodeCalls

(***************************************************************************)
(* C1.  Round trip: for a value built from integers, text, lists and       *)
(* dictionaries with text keys only, decode(encode(v), {stringify: true})  *)
(* returns a value structurally equal to v.                                *)
(* Violated: text that begins with U+FEFF comes back without it.           *)
(***************************************************************************)
C1_RoundTrip ==
    (phase = "reloaded" /\ input.t = "bytes" /\ options.stringify /\ Plain(heap, root))
        => (result.ok /\ Norm(result.val) = NormOf(heap, root))

(***************************************************************************)
(* C2.  In every dictionary the encoder emits, at any depth, the keys as   *)
(* the bytes written to the output are in strictly ascending               *)
(* byte-lexicographic order.                                               *)
(* Violated: the keys are ordered by UTF-16 code units, which puts U+1F600 *)
(* before U+FF5E, while their UTF-8 bytes are in the opposite order.       *)
(***************************************************************************)
C2_KeysAscending ==
    (Encoded /\ result.ok /\ result.val.t = "bytes") => KeyFault(result.val.v, 0) = "ok"

(***************************************************************************)
(* C3.  Canonical determinism: dictionaries holding the same entries,      *)
(* inserted in whatever order and at any depth, encode to the same bytes.  *)
(***************************************************************************)
C3_Canonical ==
    (Encoded /\ call = "encode" /\ result.ok)
        => \A g \in Reorderings(heap) :
               /\ encode(g, root, options).ok
               /\ encode(g, root, options).val = result.val

\* encode has returned the bytes of a dictionary whose keys were not inserted
\* in the order they are emitted in.
C3_Witness ==
    /\ Encoded /\ call = "encode" /\ result.ok
    /\ root = Ref(1)
    /\ heap[1].kind = "dict"
    /\ Len(heap[1].items) >= 2
    /\ Object_keys(heap[1].items) # SortedKeys(heap[1].items)

(***************************************************************************)
(* C4.  With strict, decode throws UNSORTED_KEYS if and only if the first  *)
(* thing wrong with the input is a dictionary key whose raw bytes are not  *)
(* strictly above those of the key before it; without strict it never      *)
(* throws UNSORTED_KEYS.                                                   *)
(* Violated: with stringify the keys compared are the re-encoded text, so  *)
(* the keys FE and FF, both U+FFFD as text, are reported as unsorted.      *)
(***************************************************************************)
C4_UnsortedIffRawOrder ==
    Decoded =>
        IF options.strict
        THEN (result.err.code = "UNSORTED_KEYS") <=> (KeyFault(Buffer, 0) = "fault")
        ELSE result.err.code # "UNSORTED_KEYS"

(***************************************************************************)
(* C5.  When bytes follow the top-level value, strict decode throws        *)
(* TRAILING_DATA with no position and decode without strict returns the    *)
(* first value, as if the rest were not there; when no byte follows,       *)
(* strict and non-strict decode return the same value.  All this unless    *)
(* strict decode throws UNSORTED_KEYS for the value.                       *)
(***************************************************************************)
C5_Cases(excused) ==
    (Decoded /\ Loose.ok /\ ~excused) =>
        /\ result = (IF options.strict THEN Tight ELSE Loose)
        /\ IF Loose.idx < Len(Buffer)
           THEN /\ ~Tight.ok
                /\ Tight.err = BencodeDecodeError("TRAILING_DATA", {})
                /\ FirstAlone.ok
                /\ FirstAlone.val = Loose.val
           ELSE /\ Tight.ok
                /\ Tight.val = Loose.val

C5_TrailingData == C5_Cases(Tight.err.code = "UNSORTED_KEYS")

\* C5 as stated, for every top-level value: violated by a dictionary whose keys
\* are not sorted, which strict decode rejects with UNSORTED_KEYS.
C5_AsStated == C5_Cases(FALSE)

\* A strict decode has thrown TRAILING_DATA.
C5_Witness == Decoded /\ options.strict /\ result.err.code = "TRAILING_DATA"

(***************************************************************************)
(* C6.  decode returns a value or throws a BencodeDecodeError with one of  *)
(* the nine decode error codes.                                            *)
(* Violated: a dictionary key with the length prefix -1 ends in the        *)
(* RangeError of new Uint8Array(-1).                                       *)
(***************************************************************************)
C6_TypedErrors ==
    Decoded =>
        \/ result.ok
        \/ (result.err.name = "BencodeDecodeError" /\ result.err.code \in DecodeErrorCodes)

(***************************************************************************)
(* C7.  encode, encodeToBytes and encodeToString return output or throw a  *)
(* BencodeEncodeError with code UNSUPPORTED_TYPE or CIRCULAR_REFERENCE and *)
(* a path, for every value including top-level null and undefined.         *)
(* Violated: top-level null ends in the TypeError of WeakSet.add(null).    *)
(***************************************************************************)
C7_TypedErrors ==
    Encoded =>
        \/ result.ok
        \/ /\ result.err.name = "BencodeEncodeError"
           /\ result.err.code \in EncodeErrorCodes
           /\ result.err.path # {}

(***************************************************************************)
(* C8.  encode throws CIRCULAR_REFERENCE if and only if, going through     *)
(* list elements and dictionary values from the root, a list or dictionary *)
(* is reached again while it is an ancestor on the current path, before    *)
(* any value of an unsupported type is reached in traversal order; a       *)
(* container reached along two sibling paths is no error and is written    *)
(* once for each path; encode ends on every input.                         *)
(***************************************************************************)
C8_Cycles ==
    Encoded =>
        /\ (result.err.code = "CIRCULAR_REFERENCE")
               <=> (Walk(heap, root, {}, <<>>, TRUE).ev = "cycle")
        /\ (Walk(heap, root, {}, <<>>, TRUE).ev = "ok")
               => /\ result.ok
                  /\ (result.val.t = "bytes" => result.val.v = Unfold(heap, root))

\* C8 as stated, whatever else the value holds: violated by a list holding a
\* function before a reference to itself, for which encode throws
\* UNSUPPORTED_TYPE.
C8_AsStated ==
    Encoded =>
        ((result.err.code = "CIRCULAR_REFERENCE")
            <=> (Walk(heap, root, {}, <<>>, FALSE).ev = "cycle"))

\* encode has thrown CIRCULAR_REFERENCE for a container that is reached from
\* the root through another one.
C8_Witness ==
    /\ Encoded
    /\ result.err.code = "CIRCULAR_REFERENCE"
    /\ \E p \in result.err.path : Len(p) >= 2

C10_Capped ==
    (Decoded /\ options.maxStringLength # {}) =>
        \A N \in options.maxStringLength :
            LET free == decode(input, [options EXCEPT !.maxStringLength = {}])
            IN /\ result.ok => \A n \in ByteLengths(result.val) : n <= N
               /\ (free.ok /\ \E n \in ByteLengths(free.val) : n > N)
                      => result.err.code = "MAX_SIZE_EXCEEDED"
               /\ result.err.code = "MAX_SIZE_EXCEEDED"
                      => \A p \in result.err.position : DigitsBefore(Buffer, p - 1) > N

\* The nesting depth of a decoded value: 0 for an integer or a string.
RECURSIVE Depth(_)
Depth(value) ==
    IF value.t = "list"
    THEN 1 + (IF value.v = <<>> THEN 0
              ELSE CHOOSE m \in {Depth(value.v[i]) : i \in 1..Len(value.v)} :
                       \A i \in 1..Len(value.v) : Depth(value.v[i]) <= m)
    ELSE IF value.t = "dict"
    THEN 1 + (IF value.v = <<>> THEN 0
              ELSE CHOOSE m \in {Depth(value.v[i].val) : i \in 1..Len(value.v)} :
                       \A i \in 1..Len(value.v) : Depth(value.v[i].val) <= m)
    ELSE 0

(***************************************************************************)
(* C11.  With maxDepth N >= 0, decode returns no value nested deeper than  *)
(* N: a list or dictionary opened at depth N + 1 makes it throw            *)
(* MAX_DEPTH_EXCEEDED, and an input nested no deeper than N is not         *)
(* rejected for its depth.                                                 *)
(* Violated: N = 0 is falsy and switches the check off.                    *)
(***************************************************************************)
C11_DepthCapped ==
    (Decoded /\ options.maxDepth # {}) =>
        \A N \in options.maxDepth :
            LET free == decode(input, [options EXCEPT !.maxDepth = {}])
            IN /\ result.ok => Depth(result.val) <= N
               /\ (free.ok /\ Depth(free.val) > N) => result.err.code = "MAX_DEPTH_EXCEEDED"
               /\ (free.ok /\ Depth(free.val) <= N) => result = free

(***************************************************************************)
(* C12.  decode of undefined, of null, of the empty text or of a           *)
(* zero-length byte sequence throws EMPTY_INPUT with position undefined,   *)
(* at construction, before any byte is examined.                           *)
(* Violated: a zero-length Uint8Array is truthy, passes the constructor    *)
(* and ends in UNEXPECTED_END at position 0.                               *)
(***************************************************************************)
C12_EmptyInput ==
    (Decoded /\ input \in {Undefined, Null, Str(<<>>), U8(<<>>)}) =>
        /\ ~result.ok
        /\ result.err = BencodeDecodeError("EMPTY_INPUT", {})
        /\ result.idx = 0
        /\ ~BencodeDecoder_constructor(input).ok

\* The bytes the decoder works on; none when the constructor has thrown.
Read == IF BencodeDecoder_constructor(input).ok THEN Buffer ELSE <<>>

\* The ways an integer literal can open: 'i', then '+' or not, then '-' or not.
Signs == {<<>>, <<FLAG_PLUS>>, <<FLAG_MINUS>>, <<FLAG_PLUS, FLAG_MINUS>>}
Negative(sign) == sign # <<>> /\ sign[Len(sign)] = FLAG_MINUS

\* The number of 'l' bytes that open the buffer: the literal after them is
\* the first element of the innermost list.
RECURSIVE Lists(_, _)
Lists(buf, n) == IF n < Len(buf) /\ buf[n + 1] = FLAG_LIST THEN Lists(buf, n + 1) ELSE n

\* The buffer holds, after its opening lists, 'i' and the sign: the offset
\* of the first byte after the sign.
Opens(buf, sign) ==
    LET at == Lists(buf, 0) + 1 + Len(sign)
    IN IF /\ at <= Len(buf)
          /\ buf[Lists(buf, 0) + 1] = FLAG_INTEGER
          /\ SubSeq(buf, Lists(buf, 0) + 2, at) = sign
       THEN {at} ELSE {}

\* From offset at on: a '0', then nothing or '.' and digits, then 'e'.
ZeroLiteral(buf, at) ==
    /\ ByteAt(buf, at) = 48
    /\ \/ ByteAt(buf, at + 1) = FLAG_END
       \/ /\ ByteAt(buf, at + 1) = FLAG_DOT
          /\ \E end \in (at + 2)..(Len(buf) - 1) :
                /\ buf[end + 1] = FLAG_END
                /\ \A j \in (at + 2)..(end - 1) : buf[j + 1] \in 48..57

(***************************************************************************)
(* C13.  decode returns no value for an integer literal whose digits after *)
(* the optional sign begin with '0' followed by another digit: it throws   *)
(* LEADING_ZEROS with the offset of that '0' as position.  It returns no   *)
(* value for a literal with '-' whose integer part is 0: it throws         *)
(* NEGATIVE_ZERO.  The literal i0e decodes to 0.                           *)
(***************************************************************************)
C13_Zeros ==
    Decoded =>
        /\ \A sign \in Signs : \A at \in Opens(Read, sign) :
              /\ (ByteAt(Read, at) = 48 /\ ByteAt(Read, at + 1) \in 48..57) =>
                    (~result.ok /\ result.err = BencodeDecodeError("LEADING_ZEROS", {at}))
              /\ (Negative(sign) /\ ZeroLiteral(Read, at)) =>
                    (~result.ok /\ result.err.name = "BencodeDecodeError"
                                /\ result.err.code = "NEGATIVE_ZERO")
        /\ Read = <<FLAG_INTEGER, 48, FLAG_END>> => (result.ok /\ result.val = Num(0))

\* A leading zero after a sign, in a literal inside a list, has been rejected.
C13_Witness ==
    /\ Decoded
    /\ Read = <<FLAG_LIST, FLAG_INTEGER, FLAG_MINUS, 48, 48>>
    /\ result.err.code = "LEADING_ZEROS"

\* The buffer opens with a length prefix, digits and ':': the offset of the
\* first content byte.
Content(buf) ==
    {c \in 2..Len(buf) : buf[c] = FLAG_STR_DELIMITER /\ \A j \in 1..(c - 1) : buf[j] \in 48..57}

(***************************************************************************)
(* C14.  Decoding a byte-string with the declared length n consumes        *)
(* exactly n content bytes and returns exactly those bytes; when fewer     *)
(* than n bytes remain after the prefix it throws UNEXPECTED_END with the  *)
(* cursor still at the first content byte.  Whatever decode does, its      *)
(* cursor, which only moves forward, ends between 0 and the length of the  *)
(* buffer.                                                                 *)
(***************************************************************************)
C14_ExactLength ==
    Decoded =>
        /\ 0 <= result.idx /\ result.idx <= Len(Read)
        /\ \A c \in Content(Read) :
              LET n == DigitsBefore(Read, c - 1)
              IN IF c + n > Len(Read)
                 THEN /\ ~result.ok
                      /\ result.err = BencodeDecodeError("UNEXPECTED_END", {c})
                      /\ result.idx = c
                 ELSE /\ result.ok
                      /\ result.val = U8([j \in 1..n |-> Read[c + j]])
                      /\ result.idx = c + n

\* A string of one byte has been decoded from a buffer that goes on after it.
C14_Witness ==
    /\ Decoded
    /\ Read = Bytes1(97) \o Bytes1(97)
    /\ result.ok
    /\ result.val = U8(<<97>>)
    /\ result.idx = 3

\* What can close an input cut short: end markers, after an empty string
\* where a dictionary waits for a value.
Completions ==
    {pre \o [j \in 1..k |-> FLAG_END] : pre \in {<<>>, Empty}, k \in 1..(MaxChunks + 1)}

\* buf opens a list, a dictionary or an integer and ends inside it: with
\* some completion appended it decodes as one value that reaches the end.
Truncated(buf) ==
    /\ buf # <<>>
    /\ buf[1] \in {FLAG_LIST, FLAG_DICTIONARY, FLAG_INTEGER}
    /\ \E ext \in Completions :
          LET whole == decode(U8(buf \o ext), DefaultOptions)
          IN whole.ok /\ whole.idx = Len(buf \o ext)

\* buf is 'i', digits, and then a byte that is no digit, '.' or 'e': the
\* offset of that byte.
IntegerCut(buf) ==
    {j \in 2..(Len(buf) - 1) :
        /\ buf[1] = FLAG_INTEGER
        /\ \A k \in 2..j : buf[k] \in 48..57
        /\ buf[j + 1] \notin (48..57) \cup {FLAG_DOT, FLAG_END}}

\* The call sets no limit that the input exceeds.
WithinLimits == decode(input, [options EXCEPT !.maxDepth = {}]) = result

AboutPlace(code, p) ==
    CASE code = "INVALID_FORMAT" ->
            p < Len(Read) /\ Read[p + 1] \notin (48..57) \cup {FLAG_INTEGER, FLAG_LIST, FLAG_DICTIONARY}
      [] code = "LEADING_ZEROS" -> ByteAt(Read, p) = 48 /\ ByteAt(Read, p + 1) \in 48..57
      [] code = "MAX_DEPTH_EXCEEDED" -> ByteAt(Read, p) \in {FLAG_LIST, FLAG_DICTIONARY}
      [] code = "MAX_SIZE_EXCEEDED" -> p >= 2 /\ Read[p] = FLAG_STR_DELIMITER
      [] code = "UNSORTED_KEYS" -> \E j \in 1..p : Read[j] = FLAG_DICTIONARY
      [] OTHER -> TRUE

(***************************************************************************)
(* C16.  Every BencodeDecodeError other than EMPTY_INPUT and TRAILING_DATA *)
(* carries a position p equal to the cursor of the decoder at the moment   *)
(* the problem was detected, with 0 <= p <= buffer length; EMPTY_INPUT and *)
(* TRAILING_DATA carry position undefined.                                 *)
(***************************************************************************)
C16_Positions ==
    (Decoded /\ ~result.ok /\ result.err.name = "BencodeDecodeError") =>
        IF result.err.code \in {"EMPTY_INPUT", "TRAILING_DATA"}
        THEN result.err.position = {}
        ELSE /\ result.err.position = {result.idx}
             /\ 0 <= result.idx /\ result.idx <= Len(Read)
             /\ AboutPlace(result.err.code, result.idx)

\* A strict decode has rejected keys out of order, at the offset after the
\* second key.
C16_Witness ==
    /\ Decoded
    /\ Read = <<FLAG_DICTIONARY>> \o Bytes1(97) \o Empty \o Empty
    /\ result.err = BencodeDecodeError("UNSORTED_KEYS", {8})

\* ds is the decimal numeral of the natural number n with no digit to spare.
IsNumeral(ds, n) ==
    /\ ds # <<>>
    /\ \A j \in 1..Len(ds) : ds[j] \in 48..57
    /\ Len(ds) > 1 => ds[1] # 48
    /\ DigitsBefore(ds, Len(ds)) = n

\* body is what stands between 'i' and 'e' for the number truncated toward
\* zero; no body is that for NaN and the infinities.
IsTruncated(body, number) ==
    CASE number.t = "num" ->
            IF number.v < 0 THEN body # <<>> /\ body[1] = FLAG_MINUS /\ IsNumeral(Tail(body), -number.v)
            ELSE IsNumeral(body, number.v)
      [] number.t = "frac" ->
            IF number.v.neg /\ number.v.whole > 0
            THEN body # <<>> /\ body[1] = FLAG_MINUS /\ IsNumeral(Tail(body), number.v.whole)
            ELSE IsNumeral(body, number.v.whole)
      [] number.t = "exp" ->
            body = (IF number.v.neg THEN <<FLAG_MINUS>> ELSE <<>>)
                   \o <<number.v.digit>> \o [j \in 1..number.v.zeros |-> 48]
      [] OTHER -> FALSE

(***************************************************************************)
(* C17.  encode of a number n emits 'i', the decimal digits of n truncated *)
(* toward zero with no digit to spare, and 'e'; every n with -1 < n < 1,   *)
(* -0 included, encodes as i0e.                                            *)
(* Violated: NaN encodes as iNaNe, the infinities as iInfinitye and        *)
(* i-Infinitye, and 10^21 as i1e+21e.                                      *)
(***************************************************************************)
C17_Truncation ==
    (Encoded /\ root.t \in NumberTypes) =>
        /\ result.ok
        /\ Len(result.val.v) >= 2
        /\ result.val.v[1] = FLAG_INTEGER
        /\ result.val.v[Len(result.val.v)] = FLAG_END
        /\ IsTruncated(SubSeq(result.val.v, 2, Len(result.val.v) - 1), root)
        /\ (root.t = "frac" /\ root.v.whole = 0) => result.val.v = <<FLAG_INTEGER, 48, FLAG_END>>

\* The offset of the first byte from offset j on that is no digit.
RECURSIVE RunEnd(_, _)
RunEnd(buf, j) == IF ByteAt(buf, j) \in 48..57 THEN RunEnd(buf, j + 1) ELSE j

\* The offset where the fraction ends: after '.' and its digits, if any.
FractionEnd(buf, j) == IF ByteAt(buf, j) = FLAG_DOT THEN RunEnd(buf, j + 1) ELSE j

\* From offset at on: digits D without leading zeros, then '.' and digits or
\* nothing, then 'e'.
Literal(buf, at) ==
    /\ RunEnd(buf, at) > at
    /\ (RunEnd(buf, at) = at + 1 \/ ByteAt(buf, at) # 48)
    /\ ByteAt(buf, FractionEnd(buf, RunEnd(buf, at))) = FLAG_END

\* C18 for the literal that opens the buffer; excused says whether -0 is
\* left aside, as the literal decode rejects with NEGATIVE_ZERO.
C18_Cases(excused) ==
    (Decoded /\ Read # <<>> /\ Read[1] = FLAG_INTEGER) =>
        \A sign \in Signs : \A at \in Opens(Read, sign) :
            Literal(Read, at) =>
                LET D == DigitsBefore(Read, RunEnd(Read, at))
                IN IF Negative(sign) /\ D = 0
                   THEN IF excused
                        THEN ~result.ok /\ result.err.code = "NEGATIVE_ZERO"
                        ELSE result.ok /\ result.val = Num(0)
                   ELSE /\ result.ok
                        /\ result.val = Num(IF Negative(sign) THEN -D ELSE D)
                        /\ result.idx = FractionEnd(Read, RunEnd(Read, at)) + 1

(***************************************************************************)
(* C18.  decode of a literal 'i' ['+'] ['-'] D ['.' F] 'e', with D a       *)
(* non-empty digit run without leading zeros, returns the value of D with  *)
(* the recorded sign: a leading '+' is ignored and the digits F after the  *)
(* '.' are consumed and discarded.  When the sign is '-' and D is 0, it    *)
(* throws NEGATIVE_ZERO instead.                                           *)
(***************************************************************************)
C18_Literals == C18_Cases(TRUE)

\* C18 as stated: every literal of the form decodes to a value.
\* Violated: i-0e and i-0.5e throw NEGATIVE_ZERO.
C18_AsStated == C18_Cases(FALSE)

\* The literal i+-1.5e has been decoded to -1.
C18_Witness ==
    /\ Decoded
    /\ Read = <<FLAG_INTEGER, FLAG_PLUS, FLAG_MINUS, 49, FLAG_DOT, 53, FLAG_END>>
    /\ result.ok
    /\ result.val = Num(-1)
    /\ result.idx = 7

\* The heap without the list elements that are null or undefined and
\* without the dictionary entries whose value is null or undefined.
Present(item) == item.t \notin {"null", "undefined"}
PresentEntry(entry) == entry.val.t \notin {"null", "undefined"}
Strip(h) ==
    [id \in 1..Len(h) |->
        [kind |-> h[id].kind,
         items |-> IF h[id].kind = "list" THEN SelectSeq(h[id].items, Present)
                   ELSE SelectSeq(h[id].items, PresentEntry)]]

\* The call that was made, made again for the heap h.
Again(h) ==
    CASE call = "encode" -> encode(h, root, options)
      [] call = "encodeToBytes" -> encodeToBytes(h, root)
      [] call = "encodeToString" -> encodeToString(h, root, options)

\* The list holds nothing but the number 1 and null and undefined elements.
OnesAndNothing(items) == \A j \in 1..Len(items) : items[j] = Num(1) \/ ~Present(items[j])
RECURSIVE Ones(_)
Ones(n) == IF n = 0 THEN <<>> ELSE <<FLAG_INTEGER, 49, FLAG_END>> \o Ones(n - 1)

(***************************************************************************)
(* C19.  Null and undefined list elements, and dictionary entries whose    *)
(* value is null or undefined, contribute no bytes to the output: neither  *)
(* a placeholder nor the key is emitted, and what remains is emitted in    *)
(* its original order.  The output is that of the same call for the value  *)
(* with those elements and entries taken out.                              *)
(***************************************************************************)
C19_Skipped ==
    (Encoded /\ root.t = "ref" /\ Again(Strip(heap)).ok) =>
        /\ result.ok
        /\ result.val = Again(Strip(heap)).val
        /\ (heap[root.v].kind = "list" /\ OnesAndNothing(heap[root.v].items)) =>
              result.val.v = <<FLAG_LIST>>
                             \o Ones(Cardinality({j \in 1..Len(heap[root.v].items) :
                                                     Present(heap[root.v].items[j])}))
                             \o <<FLAG_END>>

\* A list of null and 1 has been encoded as li1ee.
C19_Witness ==
    /\ Encoded
    /\ root = Ref(1)
    /\ heap[1] = [kind |-> "list", items |-> <<Null, Num(1)>>]
    /\ result.ok
    /\ result.val.v = <<FLAG_LIST, FLAG_INTEGER, 49, FLAG_END, FLAG_END>>

\* The bytes the call has produced, before any decoding to text.
OutputBytes == encodeToBytes(heap, root).val.v

\* The text with one character per byte and the byte as character code.
OneCharPerByte(bytes) == [j \in 1..Len(bytes) |-> bytes[j]]

SingleByte == {"latin1", "binary", "ascii"}

(***************************************************************************)
(* C20.  With stringify set, encode returns the output bytes decoded to    *)
(* text under UTF-8, whatever options.encoding names.  encodeToString      *)
(* returns them decoded under UTF-8 by default and, when options.encoding  *)
(* names latin1, binary or ascii, as the text with exactly one character   *)
(* per output byte and the byte as character code.                         *)
(***************************************************************************)
C20_Stringify ==
    (Encoded /\ result.ok) =>
        /\ (call = "encode" /\ options.stringify) =>
               result.val = Str(TextDecoder_decode(OutputBytes))
        /\ ((call = "encode" /\ ~options.stringify) \/ call = "encodeToBytes") =>
               result.val = U8(OutputBytes)
        /\ call = "encodeToString" =>
               IF options.encoding \cap SingleByte # {}
               THEN result.val = Str(OneCharPerByte(OutputBytes))
               ELSE result.val = Str(TextDecoder_decode(OutputBytes))
        /\ (root = U8(<<255>>) /\ call = "encode" /\ options.stringify) =>
               result.val = Str(<<49, FLAG_STR_DELIMITER, 65533>>)

\* C20 as stated: under a single-byte encoding encode with stringify returns
\* one character per output byte, the text encodeToString returns.
\* Violated: encode ignores options.encoding, and the byte FF comes out as
\* U+FFFD.
C20_AsStated ==
    (Encoded /\ result.ok /\ call = "encode" /\ options.stringify
            /\ options.encoding \cap SingleByte # {}) =>
        /\ result.val = Str(OneCharPerByte(OutputBytes))
        /\ result.val = encodeToString(heap, root, options).val

\* encode with stringify and latin1 has returned the text of a byte-string
\* holding FF.
C20_Witness ==
    /\ Encoded
    /\ call = "encode"
    /\ options.stringify
    /\ options.encoding = {"latin1"}
    /\ root = U8(<<255>>)
    /\ result.ok
    /\ result.val = Str(<<49, FLAG_STR_DELIMITER, 65533>>)

\* The number of bytes the character at i of a text takes in UTF-8: a
\* surrogate pair takes four, counted at its first half, and a surrogate alone
\* is replaced by U+FFFD, which takes three.
Paired(str, i) == str[i] \in 55296..56319 /\ i < Len(str) /\ str[i + 1] \in 56320..57343
Width(str, i) ==
    IF str[i] < 128 THEN 1
    ELSE IF str[i] < 2048 THEN 2
    ELSE IF Paired(str, i) THEN 4
    ELSE IF i > 1 /\ Paired(str, i - 1) THEN 0
    ELSE 3
RECURSIVE Utf8Length(_, _)
Utf8Length(str, i) == IF i > Len(str) THEN 0 ELSE Width(str, i) + Utf8Length(str, i + 1)

(***************************************************************************)
(* C21.  When decode is given text, the buffer holds the UTF-8 encoding of *)
(* the text: a character takes one byte position only if it is ASCII, so   *)
(* character i is byte i for ASCII text, while a declared string length    *)
(* counts UTF-8 bytes and error positions index the UTF-8 bytes.           *)
(***************************************************************************)
C21_TextAsUtf8 ==
    (Decoded /\ input.t = "str" /\ input.v # <<>>) =>
        /\ Len(Read) = Utf8Length(input.v, 1)
        /\ (\A i \in 1..Len(input.v) : input.v[i] < 128) => Read = input.v
        /\ (input.v = <<50, FLAG_STR_DELIMITER, 233>> /\ ~options.stringify) =>
               (result.ok /\ result.val = U8(<<195, 169>>))
        /\ input.v = <<FLAG_LIST, 49, FLAG_STR_DELIMITER, 233>> =>
               result.err = BencodeDecodeError("INVALID_FORMAT", {4})

\* C21 as stated: every character of the text is one byte of the buffer.
\* Violated: U+00E9 takes the two bytes C3 A9.
C21_AsStated ==
    (Decoded /\ input.t = "str" /\ input.v # <<>>) => Len(Read) = Len(input.v)

\* The text 2:é has been decoded to the two bytes of é.
C21_Witness ==
    /\ Decoded
    /\ input = Str(<<50, FLAG_STR_DELIMITER, 233>>)
    /\ result.ok
    /\ result.val = U8(<<195, 169>>)

\* The raw keys of the dictionary whose first key stands at index, in the
\* order of the input.
RECURSIVE RawKeys(_, _)
RawKeys(buf, index) ==
    IF index >= Len(buf) \/ ByteAt(buf, index) = FLAG_END THEN <<>>
    ELSE LET key == _decodeString(buf, index, 0, DefaultOptions)
         IN IF ~key.ok THEN <<>>
            ELSE <<key.val.v>> \o RawKeys(buf, BencodeDecoder_decode(buf, key.idx, 0, DefaultOptions).idx)

\* The keys are all different and not in ascending order.
Unsorted(keys) ==
    /\ \A i, j \in 1..Len(keys) : i # j => keys[i] # keys[j]
    /\ \E i \in 1..(Len(keys) - 1) : ~ByteLess(keys[i], keys[i + 1])

(***************************************************************************)
(* C22.  Without strict, decode of a dictionary whose keys are not in      *)
(* sorted order succeeds, and the keys of the decoded dictionary are       *)
(* iterated in the order in which they stand in the input, for every set   *)
(* of keys.                                                                *)
(* Violated: the keys b, 1 come back as 1, b, and the keys FF, FE come     *)
(* back as the one key U+FFFD.                                             *)
(***************************************************************************)
C22_InputOrder ==
    (Decoded /\ ~options.strict /\ Read # <<>> /\ Read[1] = FLAG_DICTIONARY
            /\ decode(input, DefaultOptions).ok /\ Unsorted(RawKeys(Read, 1))) =>
        /\ result.ok
        /\ Object_keys(result.val.v)
               = [i \in 1..Len(RawKeys(Read, 1)) |-> Bytes_toString(RawKeys(Read, 1)[i], "utf8")]

(***************************************************************************)
(* C23.  The strict check of the key order compares the raw key bytes of   *)
(* the input: decode with strict and stringify throws UNSORTED_KEYS        *)
(* exactly when decode with strict and without stringify does, also for    *)
(* keys that are not valid UTF-8.                                          *)
(* Violated: the keys FE, FF are in order as bytes and pass without        *)
(* stringify; with stringify both are U+FFFD when compared, and decode     *)
(* throws UNSORTED_KEYS.                                                   *)
(***************************************************************************)
C23_SameVerdict ==
    (Decoded /\ options.strict) =>
        ((decode(input, [options EXCEPT !.stringify = TRUE]).err.code = "UNSORTED_KEYS")
            <=> (decode(input, [options EXCEPT !.stringify = FALSE]).err.code = "UNSORTED_KEYS"))

\* A decode() call has been made on the instance.
Called == phase = "instance" /\ call = "decode()"

\* What is left of the buffer from the cursor on.
Rest == SubSeq(Read, result.idx + 1, Len(Read))

(***************************************************************************)
(* C24.  On one BencodeDecoder over a buffer of concatenated values,       *)
(* successive decode() calls return those values in order: a call made     *)
(* after the construction or after a call that returned does what decode() *)
(* does on the rest of the buffer alone, and when it returns               *)
(* getCurrentPosition() is the offset just past the value consumed.  The   *)
(* cursor never decreases across calls, and hasRemainingData() is true     *)
(* exactly when the cursor is before the end of the buffer.                *)
(***************************************************************************)
C24_Successive ==
    [][(phase = "instance" /\ call' = "decode()") =>
          /\ getCurrentPosition(result'.idx) >= getCurrentPosition(result.idx)
          /\ hasRemainingData(Read, result'.idx) <=> (result'.idx < Len(Read))
          /\ result.ok =>
                LET alone == BencodeDecoder_decode(Rest, 0, 0, options)
                IN /\ result'.ok = alone.ok
                   /\ result'.val = alone.val
                   /\ result'.err.code = alone.err.code
                   /\ getCurrentPosition(result'.idx) = result.idx + alone.idx]_vars

\* The second decode() call on the buffer i1e1:a has returned the string and
\* left the cursor at the end.
C24_Witness ==
    /\ Called
    /\ Read = <<FLAG_INTEGER, 49, FLAG_END>> \o Bytes1(97)
    /\ result.ok
    /\ result.val = U8(<<97>>)
    /\ getCurrentPosition(result.idx) = 6
    /\ ~hasRemainingData(Read, result.idx)

(***************************************************************************)
(* C28.  On one BencodeDecoder, after every decode() call, whether it      *)
(* returns or throws, the nesting-depth counter is back to 0.              *)
(* Violated: an error raised inside a list leaves the counter at the depth *)
(* of the throw: 1 after lx, and one more after every call that throws     *)
(* MAX_DEPTH_EXCEEDED.                                                     *)
(***************************************************************************)
C28_DepthZero == Called => result.depth = 0

\* The output of encodeToBytes has been handed to decode.
Reloaded == phase = "reloaded" /\ call = "decode" /\ input = encodeToBytes(heap, root).val

(***************************************************************************)
(* C25.  For every value of integers, text, bytes, lists and dictionaries  *)
(* that encodeToBytes encodes, decode of the output with strict throws     *)
(* neither UNSORTED_KEYS nor TRAILING_DATA, whatever the keys.             *)
(* Violated: the encoder orders the keys U+1F600 and U+FF5E by UTF-16 code *)
(* units and writes them as UTF-8, where they are in the opposite order.   *)
(***************************************************************************)
C25_StrictAccepts ==
    (Reloaded /\ options.strict) => result.err.code \notin {"UNSORTED_KEYS", "TRAILING_DATA"}

(***************************************************************************)
(* C26.  decode accepts a dictionary only if every key is a byte-string:   *)
(* when the byte at a key position is no ASCII digit (and not the 'e' that *)
(* ends the dictionary), decode throws a BencodeDecodeError and returns no *)
(* dictionary.  Stated for the first key position of the buffer.           *)
(* Violated: a key is read by _decodeString without a look at its first    *)
(* byte, so dlee decodes to a dictionary with the key "" and the value []. *)
(***************************************************************************)
C26_KeysAreStrings ==
    (Decoded /\ Len(Read) >= 2 /\ Read[1] = FLAG_DICTIONARY
            /\ Read[2] \notin (48..57) \cup {FLAG_END}) =>
        (~result.ok /\ result.err.name = "BencodeDecodeError")

(***************************************************************************)
(* C27.  decode rejects an integer literal that has no digit in its        *)
(* integer part: when 'i' and the sign are followed by a byte that is no   *)
(* digit, as in ie, i+e and i.5e, it throws a BencodeDecodeError and       *)
(* returns neither 0 nor any other value.                                  *)
(* Violated: the digit loop may run zero times, and ie, i+e and i.5e       *)
(* decode to 0.                                                            *)
(***************************************************************************)
C27_DigitNeeded ==
    Decoded =>
        \A sign \in Signs : \A at \in Opens(Read, sign) :
            ByteAt(Read, at) \notin (48..57) \cup {FLAG_PLUS, FLAG_MINUS} =>
                (~result.ok /\ result.err.name = "BencodeDecodeError")

\* The wire grammar without the tolerances of the decoder.  WireEnd is the
\* offset after the value that starts at offset i, or -1 when none does: a
\* string is a numeral without spare zeros, ':' and that many bytes; an
\* integer is 'i', an optional '-', a numeral without spare zeros that is
\* not -0, and 'e'; a dictionary has strings as keys, strictly ascending.
NumeralValue(buf, i, e) == DigitsBefore(SubSeq(buf, i + 1, e), e - i)
WireString(buf, i) ==
    LET e == RunEnd(buf, i)
    IN IF e = i \/ (e - i > 1 /\ ByteAt(buf, i) = 48) \/ ByteAt(buf, e) # FLAG_STR_DELIMITER
          \/ e + 1 + NumeralValue(buf, i, e) > Len(buf)
       THEN -1 ELSE e + 1 + NumeralValue(buf, i, e)
WireInteger(buf, i) ==
    LET neg == ByteAt(buf, i + 1) = FLAG_MINUS
        s == IF neg THEN i + 2 ELSE i + 1
        e == RunEnd(buf, s)
    IN IF e = s \/ (e - s > 1 /\ ByteAt(buf, s) = 48) \/ (neg /\ ByteAt(buf, s) = 48)
          \/ ByteAt(buf, e) # FLAG_END
       THEN -1 ELSE e + 1
WireKey(buf, i) == SubSeq(buf, RunEnd(buf, i) + 2, WireString(buf, i))

RECURSIVE WireEnd(_, _)
RECURSIVE WireItems(_, _, _, _)
WireEnd(buf, i) ==
    IF i < 0 THEN -1
    ELSE IF ByteAt(buf, i) \in 48..57 THEN WireString(buf, i)
    ELSE IF ByteAt(buf, i) = FLAG_INTEGER THEN WireInteger(buf, i)
    ELSE IF ByteAt(buf, i) = FLAG_LIST THEN WireItems(buf, i + 1, FALSE, <<>>)
    ELSE IF ByteAt(buf, i) = FLAG_DICTIONARY THEN WireItems(buf, i + 1, TRUE, <<>>)
    ELSE -1

WireItems(buf, i, isDict, prev) ==
    IF i < 0 \/ i >= Len(buf) THEN -1
    ELSE IF ByteAt(buf, i) = FLAG_END THEN i + 1
    ELSE IF ~isDict THEN WireItems(buf, WireEnd(buf, i), FALSE, <<>>)
    ELSE IF ByteAt(buf, i) \notin 48..57 \/ WireString(buf, i) < 0 THEN -1
    ELSE IF prev # <<>> /\ ~ByteLess(prev[1], WireKey(buf, i)) THEN -1
    ELSE WireItems(buf, WireEnd(buf, WireString(buf, i)), TRUE, <<WireKey(buf, i)>>)

Canonical(x) == x # <<>> /\ WireEnd(x, 0) = Len(x)

(***************************************************************************)
(* C29.  For every canonical bencode byte sequence x (one value of the     *)
(* wire grammar, keys strictly ascending, no trailing bytes), decode(x)    *)
(* returns and encodeToBytes(decode(x)) equals x byte for byte, also when  *)
(* keys or strings hold bytes that are not valid UTF-8.                    *)
(* Violated: a decoded key is text, so the key FE comes back as U+FFFD and *)
(* is written as EF BF BD.                                                 *)
(***************************************************************************)
C29_Reencoded ==
    /\ (Decoded /\ Canonical(Read)) => result.ok
    /\ (phase = "reencoded" /\ Canonical(input.v)) => (result.ok /\ result.val = U8(input.v))

\* Where the encoding of the value stops, if it does: the first value in
\* traversal order that is a cycle or of no encodable type.
Stop == Walk(heap, root, {}, <<>>, TRUE)

\* The lists and dictionaries that are the value a path leads to or one of
\* the values the path goes through.
OnPath(h, value, path) ==
    Ancestors(h, value, path)
        \cup (IF Follow(h, value, path).t = "ref" THEN {Follow(h, value, path).v} ELSE {})

(***************************************************************************)
(* C30.  While a value is being encoded, the visited set holds exactly the *)
(* lists and dictionaries that are this value or one of its ancestors, and *)
(* the path stack is as long as the number of list-element and             *)
(* dictionary-value edges from the root to it; when encode returns, both   *)
(* are empty.  The encoder at the moment a value is taken up is what a     *)
(* throw at that value leaves behind, there being no cleanup on a throw:   *)
(* for every value and every place in it where a function or a cycle       *)
(* stands, the instance then holds the path to that place and the          *)
(* containers on it, the finished siblings removed.                        *)
(***************************************************************************)
C30_Bookkeeping ==
    Encoded =>
        /\ result.ok => (result.visited = {} /\ result.path = <<>>)
        /\ ~result.ok =>
              /\ Stop.ev # "ok"
              /\ result.path = Stop.path
              /\ Len(result.path) = Cardinality({n \in 1..Len(Stop.path) :
                                         Follow(heap, root, SubSeq(Stop.path, 1, n)) # Nowhere})
              /\ result.visited = OnPath(heap, root, Stop.path)

\* A throw at the second element of the root list, after the first element, a
\* list or dictionary of its own, was written and removed from the visited set.
C30_Witness ==
    /\ Encoded
    /\ ~result.ok
    /\ root = Ref(1)
    /\ Len(heap) = 2
    /\ heap[1].kind = "list"
    /\ heap[1].items[1] = Ref(2)
    /\ result.path = <<Num(1)>>
    /\ result.visited = {1}

====
